---- MODULE Spec2Model ----
(***************************************************************************)
(* A state-machine model of the Wi-Fi orchestrator (WifiNative), of the    *)
(* cell-broadcast channel configurator (GonkCellBroadcastConfigHandler)    *)
(* and of the radio worker (nsRilWorker).                                  *)
(*                                                                         *)
(* WifiNative runs on one thread: an operation (StartWifi, StopWifi,       *)
(* StartSoftAp, StopSoftAp) is a sequence of steps, one per call it makes  *)
(* on a HAL wrapper.  pc is the position in the running operation.  The    *)
(* wrappers' results are the environment's choice.                         *)
(***************************************************************************)
EXTENDS Integers, Sequences, FiniteSets

(* static const int32_t CONNECTION_RETRY_TIMES = 50; *)
CONNECTION_RETRY_TIMES == 50

(* nsIWifiResult codes used by WifiNative *)
SUCCESS == "SUCCESS"
ERROR_UNKNOWN == "ERROR_UNKNOWN"
ERROR_COMMAND_FAILED == "ERROR_COMMAND_FAILED"

Errors == {ERROR_UNKNOWN, ERROR_COMMAND_FAILED}

(* what a HAL wrapper call may return *)
Results == {SUCCESS} \cup Errors

(* the CHECK_SUCCESS macro *)
CHECK_SUCCESS(b) == IF b THEN SUCCESS ELSE ERROR_COMMAND_FAILED

(* the interface names a wrapper may write into its out-parameter *)
IfaceNames == {"", "wlan0"}

VARIABLES
  pc,                 \* position of the WifiNative thread ("idle": no operation runs)
  op,                 \* the operation that runs, or ran last
  ret,                \* what the last operation returned ("running" while one runs)
  result,             \* the local Result_t result of the running operation
  log,                \* the calls the running (or last) operation made, in order
  connected,          \* local of the readiness loop
  connectTries,       \* local of the readiness loop
  polls,              \* IsInterfaceReady() calls made by the readiness loop
  sleeps,             \* usleep() calls made by the readiness loop
  hal,                \* the layers below WifiNative, as the calls left them
  mStaInterfaceName,  \* WifiNative::mStaInterfaceName
  mApInterfaceName,   \* WifiNative::mApInterfaceName
  trip,               \* history: a start operation and the stop operation that follows it
  entry               \* history: the layers as they were when the last stop operation began

wifiVars == <<pc, op, ret, result, log, connected, connectTries, polls, sleeps,
              hal, mStaInterfaceName, mApInterfaceName, trip, entry>>

VARIABLES
  _mccmnc,            \* per client: GonkCellBroadcastConfigHandler._mccmnc
  _config,            \* per client: GonkCellBroadcastConfigHandler._config
  radioInterface,     \* per client: does getRadioInterface(clientId) give an interface
  searchList,         \* per client: the arguments of the last setCBSearchList call
  lastNotify          \* history: what the last notifyIccInfoChanged call did

cbVars == <<_mccmnc, _config, radioInterface, searchList, lastNotify>>

VARIABLES
  customization,      \* the values gCustomizationInfo.getCustomizedValue returns
  computed            \* what _getCellBroadcastConfig returned for them

configVars == <<customization, computed>>

(* nsRilWorker, one worker *)
VARIABLES
  mClientId,          \* the SIM slot of the worker
  mRadioProxy,        \* the cached Radio HAL handle, or nullptr
  mDeathRecipient,    \* the death recipient, or nullptr
  mRilCallback,       \* the registered listener, or nullptr
  proxy,              \* what is registered on the handle: death link, sinks
  rilAlive,           \* FALSE once the process of the worker has crashed
  request,            \* history: the last method called on the worker
  mainQueue,          \* the runnables dispatched to the main thread
  handled             \* history: the last call made on the listener

rilVars == <<mClientId, mRadioProxy, mDeathRecipient, mRilCallback, proxy,
             rilAlive, request, mainQueue, handled>>

(* WifiNative::ExecuteCommand *)
VARIABLES
  aResult,            \* the nsWifiResult the caller passes
  executed            \* history: the last ExecuteCommand call

execVars == <<aResult, executed>>

VARIABLES
  searched            \* the last getCBSearchList call: its client and what came back

searchVars == <<searched>>

VARIABLES
  at,                 \* where each thread is in GetRadioProxy
  fetched,            \* what getService returned to each thread
  began,              \* the number of GetRadioProxy calls each thread began
  halCalls            \* the calls made on the Radio HAL by GetRadioProxy so far

raceVars == <<at, fetched, began, halCalls>>

vars == <<wifiVars, cbVars, configVars, rilVars, execVars, searchVars, raceVars>>

(* what an action of one component leaves alone *)
notWifiVars == <<cbVars, configVars, rilVars, execVars, searchVars, raceVars>>

notCbVars == <<wifiVars, configVars, rilVars, execVars, searchVars, raceVars>>

notConfigVars == <<wifiVars, cbVars, rilVars, execVars, searchVars, raceVars>>

notRilVars == <<wifiVars, cbVars, configVars, execVars, searchVars, raceVars>>

notExecVars == <<wifiVars, cbVars, configVars, rilVars, searchVars, raceVars>>

notSearchVars == <<wifiVars, cbVars, configVars, rilVars, execVars, raceVars>>

(* ------------------------------------------------------------------------ *)
(* The layers below WifiNative.  A field is TRUE when the last call on the   *)
(* layer that returned SUCCESS was a set-up call, FALSE when it was a        *)
(* tear-down call (or when there was none).                                  *)
(* ------------------------------------------------------------------------ *)
StaLayers == {"module", "staIface", "eventService", "supplicantHal",
              "supplicantDaemon", "deathHandler", "clientIface", "supplicantStaIface"}

ApLayers == {"hostapdHal", "apIface", "apEventService", "wificondApIface", "softap"}

Layers == StaLayers \cup ApLayers

AllDown == [l \in Layers |-> FALSE]

Up(h, ls) == [l \in Layers |-> IF l \in ls THEN TRUE ELSE h[l]]

Down(h, ls) == [l \in Layers |-> IF l \in ls THEN FALSE ELSE h[l]]

(* The effect of a call that returned res.  A failed call leaves the layers  *)
(* as they were.  DeinitInterface "teardown[s] supplicant hal interfaces";   *)
(* TearDownInterface "clean[s] wifi hidl client and unload[s] wlan module".  *)
HalEffect(h, call, res) ==
  IF res \in Errors THEN h
  ELSE CASE call = "WifiHal.StartWifiModule" -> Up(h, {"module"})
         [] call = "WifiHal.ConfigChipAndCreateIface(STA)" -> Up(h, {"staIface"})
         [] call = "WificondEventService.CreateService" -> Up(h, {"eventService"})
         [] call = "SupplicantStaManager.InitInterface" -> Up(h, {"supplicantHal"})
         [] call = "WificondControl.StartSupplicant" -> Up(h, {"supplicantDaemon"})
         [] call = "SupplicantStaManager.RegisterDeathHandler" -> Up(h, {"deathHandler"})
         [] call = "WificondControl.SetupClientIface" -> Up(h, {"clientIface"})
         [] call = "SupplicantStaManager.SetupStaInterface" -> Up(h, {"supplicantStaIface"})
         [] call = "SupplicantStaManager.DeinitInterface" ->
              Down(h, {"supplicantStaIface", "supplicantHal"})
         [] call = "WificondControl.StopSupplicant" -> Down(h, {"supplicantDaemon"})
         [] call = "WificondControl.TearDownClientInterface" -> Down(h, {"clientIface"})
         [] call = "SupplicantStaManager.UnregisterDeathHandler" -> Down(h, {"deathHandler"})
         [] call = "WifiHal.TearDownInterface(STA)" -> Down(h, {"staIface", "module"})
         [] call = "SoftapManager.InitInterface" -> Up(h, {"hostapdHal"})
         [] call = "WifiHal.ConfigChipAndCreateIface(AP)" -> Up(h, {"apIface"})
         [] call = "SoftapEventService.CreateService" -> Up(h, {"apEventService"})
         [] call = "WificondControl.SetupApIface" -> Up(h, {"wificondApIface"})
         [] call = "SoftapManager.StartSoftap" -> Up(h, {"softap"})
         [] call = "SoftapManager.StopSoftap" -> Down(h, {"softap"})
         [] call = "WificondControl.TearDownSoftapInterface" -> Down(h, {"wificondApIface"})
         [] call = "SoftapManager.DeinitInterface" -> Down(h, {"hostapdHal"})
         [] call = "WifiHal.TearDownInterface(AP)" -> Down(h, {"apIface", "module"})
         [] OTHER -> h

(* one entry of log: a call and what it returned ("void" for a void call)   *)
Call(c, r) == [call |-> c, res |-> r]

(* ------------------------------------------------------------------------ *)
(* History of a StartWifi / StopWifi round trip.                             *)
(* ------------------------------------------------------------------------ *)
NoTrip == [phase |-> "none", kind |-> "none", before |-> AllDown, startLog |-> <<>>]

(* a start operation of mode k ("sta", "ap") begins with the layers as h *)
StartTrip(k, h) == [phase |-> "start", kind |-> k, before |-> h, startLog |-> <<>>]

(* the running operation returns r, having made the calls l *)
TripOnReturn(t, r, l) ==
  CASE t.phase = "start" ->
         IF r = SUCCESS THEN [t EXCEPT !.phase = "startOk", !.startLog = l] ELSE NoTrip
    [] t.phase = "stop" -> IF r = SUCCESS THEN [t EXCEPT !.phase = "done"] ELSE NoTrip
    [] OTHER -> NoTrip

(* a stop operation of mode k begins *)
TripOnStop(t, k) ==
  IF t.phase = "startOk" /\ t.kind = k THEN [t EXCEPT !.phase = "stop"] ELSE NoTrip

(* ------------------------------------------------------------------------ *)
(* Control flow helpers.                                                     *)
(* ------------------------------------------------------------------------ *)
KeepLocals == UNCHANGED <<connected, connectTries, polls, sleeps>>

ResetLocals ==
  /\ connected' = FALSE
  /\ connectTries' = 0
  /\ polls' = 0
  /\ sleeps' = 0

(* return r; from the running operation, whose round-trip history is t *)
Return(r, t) ==
  /\ pc' = "idle"
  /\ ret' = r
  /\ result' = ERROR_UNKNOWN
  /\ trip' = TripOnReturn(t, r, log')

(* result = r; and go on at label l *)
Goto(l, r, t) ==
  /\ pc' = l
  /\ ret' = "running"
  /\ result' = r
  /\ trip' = t

WifiInit ==
  /\ pc = "idle"
  /\ op = "none"
  /\ ret = "none"
  /\ result = ERROR_UNKNOWN
  /\ log = <<>>
  /\ connected = FALSE
  /\ connectTries = 0
  /\ polls = 0
  /\ sleeps = 0
  /\ hal = AllDown
  /\ mStaInterfaceName = ""
  /\ mApInterfaceName = ""
  /\ trip = NoTrip
  /\ entry = AllDown

(* ------------------------------------------------------------------------ *)
(* WifiNative::StartWifi                                                     *)
(* ------------------------------------------------------------------------ *)

(* result = s_WifiHal->StartWifiModule(); if (result != SUCCESS) return result; *)
SW_StartWifiModule ==
  /\ pc = "idle"
  /\ \E r \in Results :
       /\ op' = "StartWifi"
       /\ log' = <<Call("WifiHal.StartWifiModule", r)>>
       /\ hal' = HalEffect(hal, "WifiHal.StartWifiModule", r)
       /\ IF r # SUCCESS
            THEN Return(r, StartTrip("sta", hal))
            ELSE Goto("SW_ConfigChip", r, StartTrip("sta", hal))
  /\ ResetLocals
  /\ entry' = AllDown
  /\ UNCHANGED <<mStaInterfaceName, mApInterfaceName>>
  /\ UNCHANGED notWifiVars

(* s_WifiHal->ConfigChipAndCreateIface(STA, mStaInterfaceName);  the value   *)
(* it returns is dropped                                                     *)
SW_ConfigChipAndCreateIface ==
  /\ pc = "SW_ConfigChip"
  /\ \E r \in Results :
       /\ log' = Append(log, Call("WifiHal.ConfigChipAndCreateIface(STA)", r))
       /\ hal' = HalEffect(hal, "WifiHal.ConfigChipAndCreateIface(STA)", r)
       /\ \E nm \in IfaceNames :
            mStaInterfaceName' = IF r = SUCCESS THEN nm ELSE mStaInterfaceName
  /\ Goto("SW_CreateService", result, trip)
  /\ KeepLocals
  /\ UNCHANGED <<op, mApInterfaceName, entry>>
  /\ UNCHANGED notWifiVars

(* eventService = WificondEventService::CreateService(mStaInterfaceName);    *)
(* if (eventService == nullptr) return ERROR_COMMAND_FAILED;                 *)
(* eventService->RegisterEventCallback(mEventCallback);                      *)
SW_CreateService ==
  /\ pc = "SW_CreateService"
  /\ \E r \in {SUCCESS, "nullptr"} :
       IF r = "nullptr"
         THEN /\ log' = Append(log, Call("WificondEventService.CreateService", r))
              /\ hal' = hal
              /\ Return(ERROR_COMMAND_FAILED, trip)
         ELSE /\ log' = log \o <<Call("WificondEventService.CreateService", r),
                                 Call("WificondEventService.RegisterEventCallback", "void")>>
              /\ hal' = HalEffect(hal, "WificondEventService.CreateService", r)
              /\ Goto("SS_IsInterfaceReady", result, trip)
  /\ KeepLocals
  /\ UNCHANGED <<op, mStaInterfaceName, mApInterfaceName, entry>>
  /\ UNCHANGED notWifiVars

(* ------------------------------------------------------------------------ *)
(* WifiNative::StartSupplicant, called by StartWifi                          *)
(* ------------------------------------------------------------------------ *)

(* if (!s_SupplicantStaManager->IsInterfaceReady()) { ... InitInterface ... } *)
SS_IsInterfaceReady ==
  /\ pc = "SS_IsInterfaceReady"
  /\ \E ready \in BOOLEAN :
       Goto(IF ready THEN "SS_StartSupplicant" ELSE "SS_InitInterface", ERROR_UNKNOWN, trip)
  /\ KeepLocals
  /\ UNCHANGED <<op, log, hal, mStaInterfaceName, mApInterfaceName, entry>>
  /\ UNCHANGED notWifiVars

(* result = s_SupplicantStaManager->InitInterface();                         *)
(* if (result != SUCCESS) return result;                                     *)
SS_InitInterface ==
  /\ pc = "SS_InitInterface"
  /\ \E r \in Results :
       /\ hal' = HalEffect(hal, "SupplicantStaManager.InitInterface", r)
       /\ IF r # SUCCESS
            THEN /\ log' = log \o <<Call("SupplicantStaManager.InitInterface", r),
                                    Call("WifiNative.StartSupplicant", r)>>
                 /\ Goto("SW_AfterStartSupplicant", r, trip)
            ELSE /\ log' = Append(log, Call("SupplicantStaManager.InitInterface", r))
                 /\ Goto("SS_StartSupplicant", r, trip)
  /\ KeepLocals
  /\ UNCHANGED <<op, mStaInterfaceName, mApInterfaceName, entry>>
  /\ UNCHANGED notWifiVars

(* result = s_WificondControl->StartSupplicant();                            *)
(* if (result != SUCCESS) return result;                                     *)
(* bool connected = false; int32_t connectTries = 0;                         *)
SS_StartSupplicant ==
  /\ pc = "SS_StartSupplicant"
  /\ \E r \in Results :
       /\ hal' = HalEffect(hal, "WificondControl.StartSupplicant", r)
       /\ IF r # SUCCESS
            THEN /\ log' = log \o <<Call("WificondControl.StartSupplicant", r),
                                    Call("WifiNative.StartSupplicant", r)>>
                 /\ Goto("SW_AfterStartSupplicant", r, trip)
            ELSE /\ log' = Append(log, Call("WificondControl.StartSupplicant", r))
                 /\ Goto("SS_Loop", r, trip)
  /\ ResetLocals
  /\ UNCHANGED <<op, mStaInterfaceName, mApInterfaceName, entry>>
  /\ UNCHANGED notWifiVars

(* a loop that goes round once more: connectTries++ <= CONNECTION_RETRY_TIMES *)
LoopTestInclusive == (~connected) /\ connectTries <= CONNECTION_RETRY_TIMES

(* while (!connected && connectTries++ < CONNECTION_RETRY_TIMES): the test   *)
LoopTest == (~connected) /\ connectTries < CONNECTION_RETRY_TIMES

(* the test's side effect: connectTries++ is evaluated when !connected       *)
LoopTestTries == IF ~connected THEN connectTries + 1 ELSE connectTries

(* a loop body without the break: it sleeps after the ready poll too and     *)
(* goes back to the test                                                     *)
SS_LoopIterNoBreak ==
  /\ pc = "SS_Loop"
  /\ LoopTest
  /\ connectTries' = LoopTestTries
  /\ polls' = polls + 1
  /\ sleeps' = sleeps + 1
  /\ \E ready \in BOOLEAN : connected' = ready
  /\ Goto("SS_Loop", result, trip)
  /\ UNCHANGED <<op, log, hal, mStaInterfaceName, mApInterfaceName, entry>>
  /\ UNCHANGED notWifiVars

(* one pass of the loop body:                                                *)
(*   if (IsInterfaceReady()) { connected = true; break; }  usleep(...);      *)
SS_LoopIter ==
  /\ pc = "SS_Loop"
  /\ LoopTest
  /\ connectTries' = LoopTestTries
  /\ polls' = polls + 1
  /\ \E ready \in BOOLEAN :
       IF ready
         THEN connected' = TRUE /\ sleeps' = sleeps /\ Goto("SS_Return", result, trip)
         ELSE connected' = connected /\ sleeps' = sleeps + 1 /\ Goto("SS_Loop", result, trip)
  /\ UNCHANGED <<op, log, hal, mStaInterfaceName, mApInterfaceName, entry>>
  /\ UNCHANGED notWifiVars

(* the test fails: the loop is left *)
SS_LoopExit ==
  /\ pc = "SS_Loop"
  /\ ~LoopTest
  /\ connectTries' = LoopTestTries
  /\ Goto("SS_Return", result, trip)
  /\ UNCHANGED <<op, log, hal, connected, polls, sleeps, mStaInterfaceName, mApInterfaceName,
               entry>>
  /\ UNCHANGED notWifiVars

(* return CHECK_SUCCESS(connected); *)
SS_Return ==
  /\ pc = "SS_Return"
  /\ log' = Append(log, Call("WifiNative.StartSupplicant", CHECK_SUCCESS(connected)))
  /\ Goto("SW_AfterStartSupplicant", CHECK_SUCCESS(connected), trip)
  /\ KeepLocals
  /\ UNCHANGED <<op, hal, mStaInterfaceName, mApInterfaceName, entry>>
  /\ UNCHANGED notWifiVars

(* ------------------------------------------------------------------------ *)
(* StartWifi, after result = StartSupplicant();                              *)
(* ------------------------------------------------------------------------ *)

(* a StartWifi that registers the death handler before it looks at the      *)
(* result of StartSupplicant                                                 *)
SW_RegisterDeathHandlerUnchecked ==
  /\ pc = "SW_AfterStartSupplicant"
  /\ log' = Append(log, Call("SupplicantStaManager.RegisterDeathHandler", "void"))
  /\ hal' = HalEffect(hal, "SupplicantStaManager.RegisterDeathHandler", "void")
  /\ IF result # SUCCESS
       THEN Return(result, trip)
       ELSE Goto("SW_SetupClientIface", result, trip)
  /\ ResetLocals
  /\ UNCHANGED <<op, mStaInterfaceName, mApInterfaceName, entry>>
  /\ UNCHANGED notWifiVars

(* if (result != SUCCESS) return result;                                     *)
(* s_SupplicantStaManager->RegisterDeathHandler(new SupplicantDeathHandler()) *)
SW_RegisterDeathHandler ==
  /\ pc = "SW_AfterStartSupplicant"
  /\ IF result # SUCCESS
       THEN /\ log' = log
            /\ hal' = hal
            /\ Return(result, trip)
       ELSE /\ log' = Append(log, Call("SupplicantStaManager.RegisterDeathHandler", "void"))
            /\ hal' = HalEffect(hal, "SupplicantStaManager.RegisterDeathHandler", "void")
            /\ Goto("SW_SetupClientIface", result, trip)
  /\ ResetLocals
  /\ UNCHANGED <<op, mStaInterfaceName, mApInterfaceName, entry>>
  /\ UNCHANGED notWifiVars

(* result = s_WificondControl->SetupClientIface(mStaInterfaceName, ...);     *)
SW_SetupClientIface ==
  /\ pc = "SW_SetupClientIface"
  /\ \E r \in Results :
       /\ log' = Append(log, Call("WificondControl.SetupClientIface", r))
       /\ hal' = HalEffect(hal, "WificondControl.SetupClientIface", r)
       /\ Goto(IF r # SUCCESS THEN "SW_SetupClientFailed" ELSE "SW_SetupStaInterface", r, trip)
  /\ KeepLocals
  /\ UNCHANGED <<op, mStaInterfaceName, mApInterfaceName, entry>>
  /\ UNCHANGED notWifiVars

(* if (result != SUCCESS) { TearDownClientInterface(...); return result; }   *)
SW_SetupClientFailed ==
  /\ pc = "SW_SetupClientFailed"
  /\ \E r \in Results :
       /\ log' = Append(log, Call("WificondControl.TearDownClientInterface", r))
       /\ hal' = HalEffect(hal, "WificondControl.TearDownClientInterface", r)
  /\ Return(result, trip)
  /\ KeepLocals
  /\ UNCHANGED <<op, mStaInterfaceName, mApInterfaceName, entry>>
  /\ UNCHANGED notWifiVars

(* a StartWifi that unregisters the death handler when SetupStaInterface     *)
(* fails                                                                     *)
SW_SetupStaInterfaceRollingBack ==
  /\ pc = "SW_SetupStaInterface"
  /\ \E r \in Results :
       IF r # SUCCESS
         THEN /\ log' = log \o <<Call("SupplicantStaManager.SetupStaInterface", r),
                                 Call("SupplicantStaManager.UnregisterDeathHandler", "void")>>
              /\ hal' = HalEffect(hal, "SupplicantStaManager.UnregisterDeathHandler", "void")
              /\ Return(r, trip)
         ELSE /\ log' = Append(log, Call("SupplicantStaManager.SetupStaInterface", r))
              /\ hal' = HalEffect(hal, "SupplicantStaManager.SetupStaInterface", r)
              /\ Return(CHECK_SUCCESS(mStaInterfaceName # ""), trip)
  /\ KeepLocals
  /\ UNCHANGED <<op, mStaInterfaceName, mApInterfaceName, entry>>
  /\ UNCHANGED notWifiVars

(* result = s_SupplicantStaManager->SetupStaInterface(mStaInterfaceName);    *)
(* if (result != SUCCESS) return result;                                     *)
(* aIfaceName.Assign(iface); return CHECK_SUCCESS(aIfaceName.Length() > 0);  *)
SW_SetupStaInterface ==
  /\ pc = "SW_SetupStaInterface"
  /\ \E r \in Results :
       /\ log' = Append(log, Call("SupplicantStaManager.SetupStaInterface", r))
       /\ hal' = HalEffect(hal, "SupplicantStaManager.SetupStaInterface", r)
       /\ IF r # SUCCESS
            THEN Return(r, trip)
            ELSE Return(CHECK_SUCCESS(mStaInterfaceName # ""), trip)
  /\ KeepLocals
  /\ UNCHANGED <<op, mStaInterfaceName, mApInterfaceName, entry>>
  /\ UNCHANGED notWifiVars

StartWifi ==
  \/ SW_StartWifiModule
  \/ SW_ConfigChipAndCreateIface
  \/ SW_CreateService
  \/ SS_IsInterfaceReady
  \/ SS_InitInterface
  \/ SS_StartSupplicant
  \/ SS_LoopIter
  \/ SS_LoopExit
  \/ SS_Return
  \/ SW_RegisterDeathHandler
  \/ SW_SetupClientIface
  \/ SW_SetupClientFailed
  \/ SW_SetupStaInterface

(* ------------------------------------------------------------------------ *)
(* WifiNative::StopWifi and WifiNative::StopSupplicant                       *)
(* ------------------------------------------------------------------------ *)

(* StopWifi: result = StopSupplicant();  StopSupplicant:                     *)
(* result = s_SupplicantStaManager->DeinitInterface();                       *)
(* if (result != SUCCESS) return result;                                     *)
TS_DeinitInterface ==
  /\ pc = "idle"
  /\ \E r \in Results :
       /\ op' = "StopWifi"
       /\ hal' = HalEffect(hal, "SupplicantStaManager.DeinitInterface", r)
       /\ IF r # SUCCESS
            THEN /\ log' = <<Call("SupplicantStaManager.DeinitInterface", r),
                             Call("WifiNative.StopSupplicant", r)>>
                 /\ Return(r, TripOnStop(trip, "sta"))
            ELSE /\ log' = <<Call("SupplicantStaManager.DeinitInterface", r)>>
                 /\ Goto("TS_StopSupplicant", r, TripOnStop(trip, "sta"))
  /\ ResetLocals
  /\ entry' = hal
  /\ UNCHANGED <<mStaInterfaceName, mApInterfaceName>>
  /\ UNCHANGED notWifiVars

(* StopSupplicant: result = s_WificondControl->StopSupplicant();             *)
(* if (result != SUCCESS) return result;  return SUCCESS;                    *)
(* StopWifi: if (result != SUCCESS) return result;                           *)
TS_StopSupplicant ==
  /\ pc = "TS_StopSupplicant"
  /\ \E r \in Results :
       /\ log' = log \o <<Call("WificondControl.StopSupplicant", r),
                          Call("WifiNative.StopSupplicant", r)>>
       /\ hal' = HalEffect(hal, "WificondControl.StopSupplicant", r)
       /\ IF r # SUCCESS
            THEN Return(r, trip)
            ELSE Goto("TW_TearDownClientInterface", r, trip)
  /\ KeepLocals
  /\ UNCHANGED <<op, mStaInterfaceName, mApInterfaceName, entry>>
  /\ UNCHANGED notWifiVars

(* a StopWifi that unregisters the death handler before it tears the client *)
(* interface down                                                            *)
TW_TearDownClientInterfaceAfterHandler ==
  /\ pc = "TW_TearDownClientInterface"
  /\ \E r \in Results :
       /\ log' = log \o <<Call("SupplicantStaManager.UnregisterDeathHandler", "void"),
                          Call("WificondControl.TearDownClientInterface", r)>>
       /\ hal' = HalEffect(HalEffect(hal, "SupplicantStaManager.UnregisterDeathHandler", "void"),
                           "WificondControl.TearDownClientInterface", r)
       /\ IF r # SUCCESS
            THEN Return(r, trip)
            ELSE Goto("TW_TearDownInterface", r, trip)
  /\ KeepLocals
  /\ UNCHANGED <<op, mStaInterfaceName, mApInterfaceName, entry>>
  /\ UNCHANGED notWifiVars

(* a StopWifi that goes on when TearDownClientInterface fails *)
TW_TearDownClientInterfaceUnchecked ==
  /\ pc = "TW_TearDownClientInterface"
  /\ \E r \in Results :
       /\ log' = Append(log, Call("WificondControl.TearDownClientInterface", r))
       /\ hal' = HalEffect(hal, "WificondControl.TearDownClientInterface", r)
       /\ Goto("TW_UnregisterDeathHandler", r, trip)
  /\ KeepLocals
  /\ UNCHANGED <<op, mStaInterfaceName, mApInterfaceName, entry>>
  /\ UNCHANGED notWifiVars

(* result = s_WificondControl->TearDownClientInterface(mStaInterfaceName);   *)
(* if (result != SUCCESS) return result;                                     *)
TW_TearDownClientInterface ==
  /\ pc = "TW_TearDownClientInterface"
  /\ \E r \in Results :
       /\ log' = Append(log, Call("WificondControl.TearDownClientInterface", r))
       /\ hal' = HalEffect(hal, "WificondControl.TearDownClientInterface", r)
       /\ IF r # SUCCESS
            THEN Return(r, trip)
            ELSE Goto("TW_UnregisterDeathHandler", r, trip)
  /\ KeepLocals
  /\ UNCHANGED <<op, mStaInterfaceName, mApInterfaceName, entry>>
  /\ UNCHANGED notWifiVars

(* s_SupplicantStaManager->UnregisterDeathHandler(); *)
TW_UnregisterDeathHandler ==
  /\ pc = "TW_UnregisterDeathHandler"
  /\ log' = Append(log, Call("SupplicantStaManager.UnregisterDeathHandler", "void"))
  /\ hal' = HalEffect(hal, "SupplicantStaManager.UnregisterDeathHandler", "void")
  /\ Goto("TW_TearDownInterface", result, trip)
  /\ KeepLocals
  /\ UNCHANGED <<op, mStaInterfaceName, mApInterfaceName, entry>>
  /\ UNCHANGED notWifiVars

(* a StopWifi that looks at a state flag: it leaves the call out when the    *)
(* STA interface is down already                                             *)
TW_TearDownInterfaceIfUp ==
  /\ pc = "TW_TearDownInterface"
  /\ IF hal["staIface"]
       THEN \E r \in Results :
              /\ log' = Append(log, Call("WifiHal.TearDownInterface(STA)", r))
              /\ hal' = HalEffect(hal, "WifiHal.TearDownInterface(STA)", r)
              /\ Return(r, trip)
       ELSE /\ log' = log
            /\ hal' = hal
            /\ Return(SUCCESS, trip)
  /\ KeepLocals
  /\ UNCHANGED <<op, mStaInterfaceName, mApInterfaceName, entry>>
  /\ UNCHANGED notWifiVars

(* result = s_WifiHal->TearDownInterface(STA);                               *)
(* if (result != SUCCESS) return result;  return SUCCESS;                    *)
TW_TearDownInterface ==
  /\ pc = "TW_TearDownInterface"
  /\ \E r \in Results :
       /\ log' = Append(log, Call("WifiHal.TearDownInterface(STA)", r))
       /\ hal' = HalEffect(hal, "WifiHal.TearDownInterface(STA)", r)
       /\ Return(r, trip)
  /\ KeepLocals
  /\ UNCHANGED <<op, mStaInterfaceName, mApInterfaceName, entry>>
  /\ UNCHANGED notWifiVars

StopWifi ==
  \/ TS_DeinitInterface
  \/ TS_StopSupplicant
  \/ TW_TearDownClientInterface
  \/ TW_UnregisterDeathHandler
  \/ TW_TearDownInterface

(* ------------------------------------------------------------------------ *)
(* WifiNative::StartSoftAp and WifiNative::StartAndConnectHostapd            *)
(* ------------------------------------------------------------------------ *)

(* result = s_WifiHal->StartWifiModule(); if (result != SUCCESS) return result; *)
SA_StartWifiModule ==
  /\ pc = "idle"
  /\ \E r \in Results :
       /\ op' = "StartSoftAp"
       /\ log' = <<Call("WifiHal.StartWifiModule", r)>>
       /\ hal' = HalEffect(hal, "WifiHal.StartWifiModule", r)
       /\ IF r # SUCCESS
            THEN Return(r, StartTrip("ap", hal))
            ELSE Goto("SH_InitInterface", r, StartTrip("ap", hal))
  /\ ResetLocals
  /\ entry' = AllDown
  /\ UNCHANGED <<mStaInterfaceName, mApInterfaceName>>
  /\ UNCHANGED notWifiVars

(* StartAndConnectHostapd: result = s_SoftapManager->InitInterface();        *)
(* if (result != SUCCESS) return result;                                     *)
(* bool connected = false; int32_t connectTries = 0;                         *)
SH_InitInterface ==
  /\ pc = "SH_InitInterface"
  /\ \E r \in Results :
       /\ hal' = HalEffect(hal, "SoftapManager.InitInterface", r)
       /\ IF r # SUCCESS
            THEN /\ log' = log \o <<Call("SoftapManager.InitInterface", r),
                                    Call("WifiNative.StartAndConnectHostapd", r)>>
                 /\ Goto("SA_AfterStartHostapd", r, trip)
            ELSE /\ log' = Append(log, Call("SoftapManager.InitInterface", r))
                 /\ Goto("SH_Loop", r, trip)
  /\ ResetLocals
  /\ UNCHANGED <<op, mStaInterfaceName, mApInterfaceName, entry>>
  /\ UNCHANGED notWifiVars

(* one pass of the loop body:                                                *)
(*   if (s_SoftapManager->IsInterfaceReady()) { connected = true; break; }   *)
(*   usleep(CONNECTION_RETRY_INTERVAL_US);                                   *)
SH_LoopIter ==
  /\ pc = "SH_Loop"
  /\ LoopTest
  /\ connectTries' = LoopTestTries
  /\ polls' = polls + 1
  /\ \E ready \in BOOLEAN :
       IF ready
         THEN connected' = TRUE /\ sleeps' = sleeps /\ Goto("SH_Return", result, trip)
         ELSE connected' = connected /\ sleeps' = sleeps + 1 /\ Goto("SH_Loop", result, trip)
  /\ UNCHANGED <<op, log, hal, mStaInterfaceName, mApInterfaceName, entry>>
  /\ UNCHANGED notWifiVars

(* the test fails: the loop is left *)
SH_LoopExit ==
  /\ pc = "SH_Loop"
  /\ ~LoopTest
  /\ connectTries' = LoopTestTries
  /\ Goto("SH_Return", result, trip)
  /\ UNCHANGED <<op, log, hal, connected, polls, sleeps, mStaInterfaceName, mApInterfaceName,
               entry>>
  /\ UNCHANGED notWifiVars

(* return CHECK_SUCCESS(connected); *)
SH_Return ==
  /\ pc = "SH_Return"
  /\ log' = Append(log, Call("WifiNative.StartAndConnectHostapd", CHECK_SUCCESS(connected)))
  /\ Goto("SA_AfterStartHostapd", CHECK_SUCCESS(connected), trip)
  /\ KeepLocals
  /\ UNCHANGED <<op, hal, mStaInterfaceName, mApInterfaceName, entry>>
  /\ UNCHANGED notWifiVars

(* StartSoftAp: if (result != SUCCESS) return result;                        *)
(* result = s_WifiHal->ConfigChipAndCreateIface(AP, mApInterfaceName);       *)
(* if (result != SUCCESS) return result;                                     *)
SA_ConfigChipAndCreateIface ==
  /\ pc = "SA_AfterStartHostapd"
  /\ IF result # SUCCESS
       THEN /\ log' = log
            /\ hal' = hal
            /\ mApInterfaceName' = mApInterfaceName
            /\ Return(result, trip)
       ELSE \E r \in Results :
            /\ log' = Append(log, Call("WifiHal.ConfigChipAndCreateIface(AP)", r))
            /\ hal' = HalEffect(hal, "WifiHal.ConfigChipAndCreateIface(AP)", r)
            /\ \E nm \in IfaceNames :
                 mApInterfaceName' = IF r = SUCCESS THEN nm ELSE mApInterfaceName
            /\ IF r # SUCCESS
                 THEN Return(r, trip)
                 ELSE Goto("SA_CreateService", r, trip)
  /\ ResetLocals
  /\ UNCHANGED <<op, mStaInterfaceName, entry>>
  /\ UNCHANGED notWifiVars

(* eventService = SoftapEventService::CreateService(mApInterfaceName);       *)
(* if (eventService == nullptr) return ERROR_COMMAND_FAILED;                 *)
(* eventService->RegisterEventCallback(mEventCallback);                      *)
SA_CreateService ==
  /\ pc = "SA_CreateService"
  /\ \E r \in {SUCCESS, "nullptr"} :
       IF r = "nullptr"
         THEN /\ log' = Append(log, Call("SoftapEventService.CreateService", r))
              /\ hal' = hal
              /\ Return(ERROR_COMMAND_FAILED, trip)
         ELSE /\ log' = log \o <<Call("SoftapEventService.CreateService", r),
                                 Call("SoftapEventService.RegisterEventCallback", "void")>>
              /\ hal' = HalEffect(hal, "SoftapEventService.CreateService", r)
              /\ Goto("SA_SetupApIface", result, trip)
  /\ KeepLocals
  /\ UNCHANGED <<op, mStaInterfaceName, mApInterfaceName, entry>>
  /\ UNCHANGED notWifiVars

(* result = s_WificondControl->SetupApIface(mApInterfaceName, ...);          *)
SA_SetupApIface ==
  /\ pc = "SA_SetupApIface"
  /\ \E r \in Results :
       /\ log' = Append(log, Call("WificondControl.SetupApIface", r))
       /\ hal' = HalEffect(hal, "WificondControl.SetupApIface", r)
       /\ Goto(IF r # SUCCESS THEN "SA_SetupApFailed" ELSE "SA_SetSoftapCountryCode", r, trip)
  /\ KeepLocals
  /\ UNCHANGED <<op, mStaInterfaceName, mApInterfaceName, entry>>
  /\ UNCHANGED notWifiVars

(* if (result != SUCCESS) { TearDownSoftapInterface(...); return result; }   *)
SA_SetupApFailed ==
  /\ pc = "SA_SetupApFailed"
  /\ \E r \in Results :
       /\ log' = Append(log, Call("WificondControl.TearDownSoftapInterface", r))
       /\ hal' = HalEffect(hal, "WificondControl.TearDownSoftapInterface", r)
  /\ Return(result, trip)
  /\ KeepLocals
  /\ UNCHANGED <<op, mStaInterfaceName, mApInterfaceName, entry>>
  /\ UNCHANGED notWifiVars

(* result = s_WifiHal->SetSoftapCountryCode(countryCode);                    *)
(* if (result != SUCCESS) return result;                                     *)
SA_SetSoftapCountryCode ==
  /\ pc = "SA_SetSoftapCountryCode"
  /\ \E r \in Results :
       /\ log' = Append(log, Call("WifiHal.SetSoftapCountryCode", r))
       /\ hal' = HalEffect(hal, "WifiHal.SetSoftapCountryCode", r)
       /\ IF r # SUCCESS
            THEN Return(r, trip)
            ELSE Goto("SA_StartSoftap", r, trip)
  /\ KeepLocals
  /\ UNCHANGED <<op, mStaInterfaceName, mApInterfaceName, entry>>
  /\ UNCHANGED notWifiVars

(* result = s_SoftapManager->StartSoftap(mApInterfaceName, countryCode, ...) *)
(* if (result != SUCCESS) return result;                                     *)
(* aIfaceName.Assign(iface); return CHECK_SUCCESS(aIfaceName.Length() > 0);  *)
SA_StartSoftap ==
  /\ pc = "SA_StartSoftap"
  /\ \E r \in Results :
       /\ log' = Append(log, Call("SoftapManager.StartSoftap", r))
       /\ hal' = HalEffect(hal, "SoftapManager.StartSoftap", r)
       /\ IF r # SUCCESS
            THEN Return(r, trip)
            ELSE Return(CHECK_SUCCESS(mApInterfaceName # ""), trip)
  /\ KeepLocals
  /\ UNCHANGED <<op, mStaInterfaceName, mApInterfaceName, entry>>
  /\ UNCHANGED notWifiVars

StartSoftAp ==
  \/ SA_StartWifiModule
  \/ SH_InitInterface
  \/ SH_LoopIter
  \/ SH_LoopExit
  \/ SH_Return
  \/ SA_ConfigChipAndCreateIface
  \/ SA_CreateService
  \/ SA_SetupApIface
  \/ SA_SetupApFailed
  \/ SA_SetSoftapCountryCode
  \/ SA_StartSoftap

(* ------------------------------------------------------------------------ *)
(* WifiNative::StopSoftAp and WifiNative::StopHostapd                        *)
(* ------------------------------------------------------------------------ *)

(* result = s_SoftapManager->StopSoftap(mApInterfaceName);                   *)
(* if (result != SUCCESS) return result;                                     *)
TA_StopSoftap ==
  /\ pc = "idle"
  /\ \E r \in Results :
       /\ op' = "StopSoftAp"
       /\ log' = <<Call("SoftapManager.StopSoftap", r)>>
       /\ hal' = HalEffect(hal, "SoftapManager.StopSoftap", r)
       /\ IF r # SUCCESS
            THEN Return(r, TripOnStop(trip, "ap"))
            ELSE Goto("TA_TearDownSoftapInterface", r, TripOnStop(trip, "ap"))
  /\ ResetLocals
  /\ entry' = hal
  /\ UNCHANGED <<mStaInterfaceName, mApInterfaceName>>
  /\ UNCHANGED notWifiVars

(* result = s_WificondControl->TearDownSoftapInterface(mApInterfaceName);    *)
(* if (result != SUCCESS) return result;                                     *)
TA_TearDownSoftapInterface ==
  /\ pc = "TA_TearDownSoftapInterface"
  /\ \E r \in Results :
       /\ log' = Append(log, Call("WificondControl.TearDownSoftapInterface", r))
       /\ hal' = HalEffect(hal, "WificondControl.TearDownSoftapInterface", r)
       /\ IF r # SUCCESS
            THEN Return(r, trip)
            ELSE Goto("TH_DeinitInterface", r, trip)
  /\ KeepLocals
  /\ UNCHANGED <<op, mStaInterfaceName, mApInterfaceName, entry>>
  /\ UNCHANGED notWifiVars

(* result = StopHostapd();  StopHostapd:                                     *)
(* result = s_SoftapManager->DeinitInterface();                              *)
(* if (result != SUCCESS) return result;  return SUCCESS;                    *)
(* StopSoftAp: if (result != SUCCESS) return result;                         *)
TH_DeinitInterface ==
  /\ pc = "TH_DeinitInterface"
  /\ \E r \in Results :
       /\ log' = log \o <<Call("SoftapManager.DeinitInterface", r),
                          Call("WifiNative.StopHostapd", r)>>
       /\ hal' = HalEffect(hal, "SoftapManager.DeinitInterface", r)
       /\ IF r # SUCCESS
            THEN Return(r, trip)
            ELSE Goto("TA_TearDownInterface", r, trip)
  /\ KeepLocals
  /\ UNCHANGED <<op, mStaInterfaceName, mApInterfaceName, entry>>
  /\ UNCHANGED notWifiVars

(* result = s_WifiHal->TearDownInterface(AP);                                *)
(* if (result != SUCCESS) return result;  return SUCCESS;                    *)
TA_TearDownInterface ==
  /\ pc = "TA_TearDownInterface"
  /\ \E r \in Results :
       /\ log' = Append(log, Call("WifiHal.TearDownInterface(AP)", r))
       /\ hal' = HalEffect(hal, "WifiHal.TearDownInterface(AP)", r)
       /\ Return(r, trip)
  /\ KeepLocals
  /\ UNCHANGED <<op, mStaInterfaceName, mApInterfaceName, entry>>
  /\ UNCHANGED notWifiVars

StopSoftAp ==
  \/ TA_StopSoftap
  \/ TA_TearDownSoftapInterface
  \/ TH_DeinitInterface
  \/ TA_TearDownInterface

(* ======================================================================== *)
(* GonkCellBroadcastConfigService and its GonkCellBroadcastConfigHandlers    *)
(* ======================================================================== *)

(* gRadioInterfaceLayer.numRadioInterfaces: the service makes one handler    *)
(* per client                                                                *)
NumSlots == 2

ClientIds == 0..(NumSlots - 1)

(* nsIGonkCellBroadcastConfigService: CDMA service categories *)
SERVICE_CATEGORY_CMAS_PRESIDENTIAL_LEVEL_ALERT == 4096
SERVICE_CATEGORY_CMAS_EXTREME_THREAT == 4097
SERVICE_CATEGORY_CMAS_SEVERE_THREAT == 4098
SERVICE_CATEGORY_CMAS_CHILD_ABDUCTION_EMERGENCY == 4099
SERVICE_CATEGORY_CMAS_TEST_MESSAGE == 4100

(* nsIGonkCellBroadcastConfigService: GSM message identifiers *)
MESSAGE_ID_ETWS_EARTHQUAKE_WARNING == 4352
MESSAGE_ID_ETWS_EARTHQUAKE_AND_TSUNAMI_WARNING == 4354
MESSAGE_ID_ETWS_TEST_MESSAGE == 4355
MESSAGE_ID_ETWS_OTHER_EMERGENCY_TYPE == 4356
MESSAGE_ID_CMAS_ALERT_PRESIDENTIAL_LEVEL == 4370
MESSAGE_ID_CMAS_ALERT_EXTREME_EXPECTED_OBSERVED == 4373
MESSAGE_ID_CMAS_ALERT_SEVERE_EXPECTED_LIKELY == 4378
MESSAGE_ID_CMAS_ALERT_CHILD_ABDUCTION_EMERGENCY == 4379
MESSAGE_ID_CMAS_ALERT_REQUIRED_MONTHLY_TEST == 4380
MESSAGE_ID_CMAS_ALERT_OPERATOR_DEFINED_USE == 4382
MESSAGE_ID_CMAS_ALERT_PRESIDENTIAL_LEVEL_LANGUAGE == 4383
MESSAGE_ID_CMAS_ALERT_EXTREME_IMMEDIATE_OBSERVED_LANGUAGE == 4384
MESSAGE_ID_CMAS_ALERT_EXTREME_IMMEDIATE_LIKELY_LANGUAGE == 4385
MESSAGE_ID_CMAS_ALERT_EXTREME_EXPECTED_OBSERVED_LANGUAGE == 4386
MESSAGE_ID_CMAS_ALERT_SEVERE_EXPECTED_LIKELY_LANGUAGE == 4391
MESSAGE_ID_CMAS_ALERT_CHILD_ABDUCTION_EMERGENCY_LANGUAGE == 4392
MESSAGE_ID_CMAS_ALERT_REQUIRED_MONTHLY_TEST_LANGUAGE == 4393
MESSAGE_ID_CMAS_ALERT_OPERATOR_DEFINED_USE_LANGUAGE == 4395

(* what gCustomizationInfo.getCustomizedValue returns for each key the       *)
(* handler reads (the default the handler passes, when the key is not set)   *)
Customizations ==
  [KEY_ENABLE_EMERGENCY_ALERTS : BOOLEAN,
   KEY_ENABLE_CMAS_EXTREME_THREAT_ALERTS : BOOLEAN,
   KEY_ENABLE_CMAS_SEVERE_THREAT_ALERTS : BOOLEAN,
   KEY_ENABLE_CMAS_AMBER_ALERTS : BOOLEAN,
   KEY_CARRIER_FORCE_DISABLE_ETWS_CMAS_TEST_BOOL : BOOLEAN,
   KEY_ENABLE_ETWS_TEST_ALERTS : BOOLEAN,
   KEY_ENABLE_CMAS_TEST_ALERTS : BOOLEAN]

(* no key is set: every read gives the default of its getCustomizedValue call *)
DefaultCustomization ==
  [KEY_ENABLE_EMERGENCY_ALERTS |-> TRUE,
   KEY_ENABLE_CMAS_EXTREME_THREAT_ALERTS |-> TRUE,
   KEY_ENABLE_CMAS_SEVERE_THREAT_ALERTS |-> TRUE,
   KEY_ENABLE_CMAS_AMBER_ALERTS |-> TRUE,
   KEY_CARRIER_FORCE_DISABLE_ETWS_CMAS_TEST_BOOL |-> FALSE,
   KEY_ENABLE_ETWS_TEST_ALERTS |-> FALSE,
   KEY_ENABLE_CMAS_TEST_ALERTS |-> FALSE]

(* the carriers' customizations the handlers meet: nothing customized, only  *)
(* the extreme alerts left on, only the amber alerts left on                 *)
CustomizationChoices ==
  {DefaultCustomization,
   [DefaultCustomization EXCEPT !.KEY_ENABLE_CMAS_SEVERE_THREAT_ALERTS = FALSE,
                                !.KEY_ENABLE_CMAS_AMBER_ALERTS = FALSE],
   [DefaultCustomization EXCEPT !.KEY_ENABLE_CMAS_EXTREME_THREAT_ALERTS = FALSE,
                                !.KEY_ENABLE_CMAS_SEVERE_THREAT_ALERTS = FALSE]}

(* config.<list>.push(a); config.<list>.push(b); under if (on) *)
PushRange(on, a, b) == IF on THEN <<a, b>> ELSE <<>>

(* a _getCellBroadcastConfig whose presidential entries depend on the        *)
(* emergency alerts being enabled                                            *)
_getCellBroadcastConfigGated(c) ==
  [cdma |->
     PushRange(c.KEY_ENABLE_EMERGENCY_ALERTS,
               SERVICE_CATEGORY_CMAS_PRESIDENTIAL_LEVEL_ALERT,
               SERVICE_CATEGORY_CMAS_PRESIDENTIAL_LEVEL_ALERT + 1),
   gsm |->
     PushRange(c.KEY_ENABLE_EMERGENCY_ALERTS,
               MESSAGE_ID_CMAS_ALERT_PRESIDENTIAL_LEVEL,
               MESSAGE_ID_CMAS_ALERT_PRESIDENTIAL_LEVEL + 1)]

(* GonkCellBroadcastConfigHandler._getCellBroadcastConfig, for the           *)
(* customized values c of the handler's client                               *)
_getCellBroadcastConfig(c) ==
  LET enableEmergencyAlerts == c.KEY_ENABLE_EMERGENCY_ALERTS
      enableEtwsAlerts == enableEmergencyAlerts
      enableCmasExtremeAlerts ==
        enableEmergencyAlerts /\ c.KEY_ENABLE_CMAS_EXTREME_THREAT_ALERTS
      enableCmasSevereAlerts ==
        enableEmergencyAlerts /\ c.KEY_ENABLE_CMAS_SEVERE_THREAT_ALERTS
      enableCmasAmberAlerts ==
        enableEmergencyAlerts /\ c.KEY_ENABLE_CMAS_AMBER_ALERTS
      forceDisableEtwsCmasTest == c.KEY_CARRIER_FORCE_DISABLE_ETWS_CMAS_TEST_BOOL
      enableEtwsTestAlerts ==
        (~forceDisableEtwsCmasTest) /\ enableEmergencyAlerts /\ c.KEY_ENABLE_ETWS_TEST_ALERTS
      enableCmasTestAlerts ==
        (~forceDisableEtwsCmasTest) /\ enableEmergencyAlerts /\ c.KEY_ENABLE_CMAS_TEST_ALERTS
  IN [cdma |->
        PushRange(TRUE, SERVICE_CATEGORY_CMAS_PRESIDENTIAL_LEVEL_ALERT,
                        SERVICE_CATEGORY_CMAS_PRESIDENTIAL_LEVEL_ALERT + 1)
        \o PushRange(enableCmasExtremeAlerts, SERVICE_CATEGORY_CMAS_EXTREME_THREAT,
                                              SERVICE_CATEGORY_CMAS_EXTREME_THREAT + 1)
        \o PushRange(enableCmasSevereAlerts, SERVICE_CATEGORY_CMAS_SEVERE_THREAT,
                                             SERVICE_CATEGORY_CMAS_SEVERE_THREAT + 1)
        \o PushRange(enableCmasAmberAlerts, SERVICE_CATEGORY_CMAS_CHILD_ABDUCTION_EMERGENCY,
                                            SERVICE_CATEGORY_CMAS_CHILD_ABDUCTION_EMERGENCY + 1)
        \o PushRange(enableCmasTestAlerts, SERVICE_CATEGORY_CMAS_TEST_MESSAGE,
                                           SERVICE_CATEGORY_CMAS_TEST_MESSAGE + 1),
      gsm |->
        PushRange(enableEtwsAlerts, MESSAGE_ID_ETWS_EARTHQUAKE_WARNING,
                                    MESSAGE_ID_ETWS_EARTHQUAKE_AND_TSUNAMI_WARNING + 1)
        \o PushRange(enableEtwsAlerts, MESSAGE_ID_ETWS_OTHER_EMERGENCY_TYPE,
                                       MESSAGE_ID_ETWS_OTHER_EMERGENCY_TYPE + 1)
        \o PushRange(enableEtwsTestAlerts, MESSAGE_ID_ETWS_TEST_MESSAGE,
                                           MESSAGE_ID_ETWS_TEST_MESSAGE + 1)
        \o PushRange(TRUE, MESSAGE_ID_CMAS_ALERT_PRESIDENTIAL_LEVEL,
                           MESSAGE_ID_CMAS_ALERT_PRESIDENTIAL_LEVEL + 1)
        \o PushRange(enableCmasExtremeAlerts, MESSAGE_ID_CMAS_ALERT_EXTREME_EXPECTED_OBSERVED,
                                              MESSAGE_ID_CMAS_ALERT_SEVERE_EXPECTED_LIKELY + 1)
        \o PushRange(enableCmasAmberAlerts, MESSAGE_ID_CMAS_ALERT_CHILD_ABDUCTION_EMERGENCY,
                                            MESSAGE_ID_CMAS_ALERT_CHILD_ABDUCTION_EMERGENCY + 1)
        \o PushRange(enableCmasTestAlerts, MESSAGE_ID_CMAS_ALERT_REQUIRED_MONTHLY_TEST,
                                           MESSAGE_ID_CMAS_ALERT_OPERATOR_DEFINED_USE + 1)
        \o PushRange(TRUE, MESSAGE_ID_CMAS_ALERT_PRESIDENTIAL_LEVEL_LANGUAGE,
                           MESSAGE_ID_CMAS_ALERT_PRESIDENTIAL_LEVEL_LANGUAGE + 1)
        \o PushRange(enableCmasExtremeAlerts,
                     MESSAGE_ID_CMAS_ALERT_EXTREME_IMMEDIATE_OBSERVED_LANGUAGE,
                     MESSAGE_ID_CMAS_ALERT_EXTREME_IMMEDIATE_LIKELY_LANGUAGE + 1)
        \o PushRange(enableCmasSevereAlerts,
                     MESSAGE_ID_CMAS_ALERT_EXTREME_EXPECTED_OBSERVED_LANGUAGE,
                     MESSAGE_ID_CMAS_ALERT_SEVERE_EXPECTED_LIKELY_LANGUAGE + 1)
        \o PushRange(enableCmasAmberAlerts,
                     MESSAGE_ID_CMAS_ALERT_CHILD_ABDUCTION_EMERGENCY_LANGUAGE,
                     MESSAGE_ID_CMAS_ALERT_CHILD_ABDUCTION_EMERGENCY_LANGUAGE + 1)
        \o PushRange(enableCmasTestAlerts,
                     MESSAGE_ID_CMAS_ALERT_REQUIRED_MONTHLY_TEST_LANGUAGE,
                     MESSAGE_ID_CMAS_ALERT_OPERATOR_DEFINED_USE_LANGUAGE + 1)]

(* ------------------------------------------------------------------------ *)
(* JavaScript values and conversions the handler relies on                   *)
(* ------------------------------------------------------------------------ *)

(* what a function returns when it falls off its end *)
undefined == "undefined"

(* the initial value of GonkCellBroadcastConfigHandler.prototype._mccmnc *)
null == "null"

(* the conversion an if or an && applies to a value: undefined, null, false  *)
(* and the empty string count as false                                       *)
ToBoolean(v) == v \notin {undefined, null, "false", ""}

DecimalDigits == <<"0", "1", "2", "3", "4", "5", "6", "7", "8", "9">>

(* Number.prototype.toString of a natural number *)
RECURSIVE NumberToString(_)
NumberToString(n) ==
  IF n < 10
    THEN DecimalDigits[n + 1]
    ELSE NumberToString(n \div 10) \o DecimalDigits[(n % 10) + 1]

(* Array.prototype.toString of an array of numbers: the elements' strings,   *)
(* joined by commas                                                          *)
RECURSIVE toString(_)
toString(a) ==
  IF Len(a) = 0 THEN ""
  ELSE IF Len(a) = 1 THEN NumberToString(a[1])
  ELSE NumberToString(a[1]) \o "," \o toString(Tail(a))

(* a _isDifferentConfig that compares the lengths only *)
_isDifferentConfigByLength(aOld, aNew) ==
  IF Len(aOld.gsm) # Len(aNew.gsm) THEN "true"
  ELSE IF Len(aOld.cdma) # Len(aNew.cdma) THEN "true"
  ELSE undefined

(* GonkCellBroadcastConfigHandler._isDifferentConfig: true, or undefined     *)
(* when no test finds a difference                                           *)
_isDifferentConfig(aOld, aNew) ==
  IF Len(aOld.gsm) # Len(aNew.gsm) THEN "true"
  ELSE IF Len(aOld.cdma) # Len(aNew.cdma) THEN "true"
  ELSE IF toString(aOld.gsm) # toString(aNew.gsm) THEN "true"
  ELSE IF toString(aOld.cdma) # toString(aNew.cdma) THEN "true"
  ELSE undefined

(* ------------------------------------------------------------------------ *)
(* The handlers' state                                                       *)
(* ------------------------------------------------------------------------ *)

(* this._config = {cdma: [], gsm: []}; in the handler's constructor *)
EmptyConfig == [cdma |-> <<>>, gsm |-> <<>>]

(* this._icc.iccInfo with its mcc and mnc; "" stands for a missing field *)
IccInfo(mcc, mnc) == [present |-> TRUE, mcc |-> mcc, mnc |-> mnc]

(* this._icc.iccInfo is null *)
NoIccInfo == [present |-> FALSE, mcc |-> "", mnc |-> ""]

(* what a handler may find in this._icc.iccInfo: nothing, an iccInfo without *)
(* mcc or without mnc, or one of two home network codes                      *)
IccInfos ==
  {NoIccInfo, IccInfo("", "01"), IccInfo("001", ""),
   IccInfo("001", "01"), IccInfo("310", "01")}

(* the arguments of gCellBroadcastService.setCBSearchList, but the client *)
SearchListArgs(gsmCount, gsms, cdmaCount, cdmas) ==
  [set |-> TRUE, gsmCount |-> gsmCount, gsms |-> gsms,
   cdmaCount |-> cdmaCount, cdmas |-> cdmas]

(* setCBSearchList was not called for the client *)
NoSearchList == [set |-> FALSE, gsmCount |-> 0, gsms |-> <<>>, cdmaCount |-> 0, cdmas |-> <<>>]

(* what a notifyIccInfoChanged call on the handler of client id did: the     *)
(* iccInfo it found and the _mccmnc stored when it began, did it call        *)
(* _updateCellBroadcastConfig, did that compute a configuration, the stored  *)
(* configuration before the call, the computed one, and the number of        *)
(* setCBSearchList calls                                                     *)
Notified(id, iccInfo, mccmnc, updated, didCompute, old, new, pushes) ==
  [clientId |-> id, iccInfo |-> iccInfo, mccmnc |-> mccmnc,
   updated |-> updated, computed |-> didCompute,
   old |-> old, new |-> new, pushes |-> pushes]

NoNotify ==
  Notified(-1, NoIccInfo, null,
           FALSE, FALSE, EmptyConfig, EmptyConfig, 0)

(* the service is constructed: one handler per client, each with the empty   *)
(* configuration and no home network code yet (the constructor's own         *)
(* notifyIccInfoChanged call is the first notifyIccInfoChanged step)         *)
CBInit ==
  /\ _mccmnc = [id \in ClientIds |-> null]
  /\ _config = [id \in ClientIds |-> EmptyConfig]
  /\ radioInterface = [id \in ClientIds |-> FALSE]
  /\ searchList = [id \in ClientIds |-> NoSearchList]
  /\ lastNotify = NoNotify

(* an _updateCellBroadcastConfig that stores the configuration it computes   *)
(* before it looks for the radio interface                                   *)
_updateCellBroadcastConfigStoreFirst(id, iccInfo, mccmnc, c) ==
  LET config == _getCellBroadcastConfig(c)
  IN IF mccmnc = null \/ ~radioInterface[id]
       THEN /\ _config' = [_config EXCEPT ![id] = config]
            /\ UNCHANGED searchList
            /\ lastNotify' = Notified(id, iccInfo, _mccmnc[id], TRUE, FALSE, _config[id], _config[id], 0)
       ELSE IF ToBoolean(_isDifferentConfig(_config[id], config))
              THEN /\ searchList' =
                        [searchList EXCEPT
                           ![id] = SearchListArgs(Len(config.gsm), config.gsm,
                                                  Len(config.cdma), config.cdma)]
                   /\ _config' = [_config EXCEPT ![id] = config]
                   /\ lastNotify' = Notified(id, iccInfo, _mccmnc[id], TRUE, TRUE, _config[id], config, 1)
              ELSE /\ UNCHANGED <<_config, searchList>>
                   /\ lastNotify' = Notified(id, iccInfo, _mccmnc[id], TRUE, TRUE, _config[id], config, 0)

(* GonkCellBroadcastConfigHandler._updateCellBroadcastConfig on the handler  *)
(* of client id, whose _mccmnc is mccmnc and whose customized values are c   *)
(* (iccInfo: what the notification found, for the history only)              *)
_updateCellBroadcastConfig(id, iccInfo, mccmnc, c) ==
  IF mccmnc = null \/ ~radioInterface[id]
    THEN /\ UNCHANGED <<_config, searchList>>
         /\ lastNotify' = Notified(id, iccInfo, _mccmnc[id], TRUE, FALSE, _config[id], _config[id], 0)
    ELSE LET config == _getCellBroadcastConfig(c)
         IN IF ToBoolean(_isDifferentConfig(_config[id], config))
              THEN /\ searchList' =
                        [searchList EXCEPT
                           ![id] = SearchListArgs(Len(config.gsm), config.gsm,
                                                  Len(config.cdma), config.cdma)]
                   /\ _config' = [_config EXCEPT ![id] = config]
                   /\ lastNotify' = Notified(id, iccInfo, _mccmnc[id], TRUE, TRUE, _config[id], config, 1)
              ELSE /\ UNCHANGED <<_config, searchList>>
                   /\ lastNotify' = Notified(id, iccInfo, _mccmnc[id], TRUE, TRUE, _config[id], config, 0)

(* a notifyIccInfoChanged that updates on every notification that has a     *)
(* home network code, changed or not                                         *)
notifyIccInfoChangedAlways ==
  \E id \in ClientIds, iccInfo \in IccInfos, c \in CustomizationChoices :
    /\ IF iccInfo.present /\ ToBoolean(iccInfo.mcc) /\ ToBoolean(iccInfo.mnc)
         THEN /\ _mccmnc' = [_mccmnc EXCEPT ![id] = iccInfo.mcc \o iccInfo.mnc]
              /\ _updateCellBroadcastConfig(id, iccInfo, iccInfo.mcc \o iccInfo.mnc, c)
         ELSE /\ UNCHANGED <<_mccmnc, _config, searchList>>
              /\ lastNotify' =
                   Notified(id, iccInfo, _mccmnc[id], FALSE, FALSE,
                            _config[id], _config[id], 0)
    /\ UNCHANGED radioInterface
    /\ UNCHANGED notCbVars

(* a notifyIccInfoChanged that stores the new home network code only when    *)
(* the client has a radio interface                                          *)
notifyIccInfoChangedStoreLater ==
  \E id \in ClientIds, iccInfo \in IccInfos, c \in CustomizationChoices :
    /\ IF iccInfo.present /\ ToBoolean(iccInfo.mcc) /\ ToBoolean(iccInfo.mnc)
         THEN LET mccmnc == iccInfo.mcc \o iccInfo.mnc
              IN IF _mccmnc[id] # mccmnc
                   THEN /\ _mccmnc' = IF radioInterface[id]
                                        THEN [_mccmnc EXCEPT ![id] = mccmnc]
                                        ELSE _mccmnc
                        /\ _updateCellBroadcastConfig(id, iccInfo, mccmnc, c)
                   ELSE /\ UNCHANGED <<_mccmnc, _config, searchList>>
                        /\ lastNotify' =
                          Notified(id, iccInfo, _mccmnc[id], FALSE, FALSE,
                                   _config[id], _config[id], 0)
         ELSE /\ UNCHANGED <<_mccmnc, _config, searchList>>
              /\ lastNotify' =
                          Notified(id, iccInfo, _mccmnc[id], FALSE, FALSE,
                                   _config[id], _config[id], 0)
    /\ UNCHANGED radioInterface
    /\ UNCHANGED notCbVars

(* GonkCellBroadcastConfigHandler.notifyIccInfoChanged on the handler of one *)
(* client, for the iccInfo its ICC holds and the customized values of the    *)
(* client at that moment                                                     *)
notifyIccInfoChanged ==
  \E id \in ClientIds, iccInfo \in IccInfos, c \in CustomizationChoices :
    /\ IF iccInfo.present /\ ToBoolean(iccInfo.mcc) /\ ToBoolean(iccInfo.mnc)
         THEN LET mccmnc == iccInfo.mcc \o iccInfo.mnc
              IN IF _mccmnc[id] # mccmnc
                   THEN /\ _mccmnc' = [_mccmnc EXCEPT ![id] = mccmnc]
                        /\ _updateCellBroadcastConfig(id, iccInfo, mccmnc, c)
                   ELSE /\ UNCHANGED <<_mccmnc, _config, searchList>>
                        /\ lastNotify' =
                          Notified(id, iccInfo, _mccmnc[id], FALSE, FALSE,
                                   _config[id], _config[id], 0)
         ELSE /\ UNCHANGED <<_mccmnc, _config, searchList>>
              /\ lastNotify' =
                          Notified(id, iccInfo, _mccmnc[id], FALSE, FALSE,
                                   _config[id], _config[id], 0)
    /\ UNCHANGED radioInterface
    /\ UNCHANGED notCbVars

(* the radio interface layer gains or loses the radio interface of a client: *)
(* what gRadioInterfaceLayer.getRadioInterface(clientId) gives from then on  *)
getRadioInterface ==
  \E id \in ClientIds :
    /\ radioInterface' = [radioInterface EXCEPT ![id] = ~radioInterface[id]]
    /\ UNCHANGED <<_mccmnc, _config, searchList, lastNotify>>
    /\ UNCHANGED notCbVars

(* what a getCBSearchList call for client id gave its caller: the values of  *)
(* the four out parameters when it returned, the exception when it threw     *)
Searched(id, outcome, gsmCount, gsms, cdmaCount, cdmas) ==
  [clientId |-> id, outcome |-> outcome,
   aGsmCount |-> gsmCount, aGsms |-> gsms, aCdmaCount |-> cdmaCount, aCdmas |-> cdmas]

Threw(id, exception) == Searched(id, exception, 0, <<>>, 0, <<>>)

NoSearch == Threw(-1, "none")

SearchInit == searched = NoSearch

(* the value of a name in a scope: reading a name that is not declared       *)
(* throws a ReferenceError                                                   *)
Declared(name, scope) == name \in DOMAIN scope

(* the client ids a caller can pass: the clients and one that has no handler *)
SearchClientIds == 0..NumSlots

(* GonkCellBroadcastConfigService.getCBSearchList: the handler is looked up  *)
(* by the name aCLientId; the names in scope are the five parameters         *)
getCBSearchList ==
  \E aClientId \in SearchClientIds :
    LET scope == [aClientId |-> aClientId, aGsmCount |-> 0, aGsms |-> <<>>,
                  aCdmaCount |-> 0, aCdmas |-> <<>>]
    IN /\ searched' =
            IF ~Declared("aCLientId", scope)
              THEN Threw(aClientId, "ReferenceError")
              ELSE IF scope["aCLientId"] \notin DOMAIN _config
                     THEN Threw(aClientId, "NS_ERROR_NOT_AVAILABLE")
                     ELSE LET config == _config[scope["aCLientId"]]
                          IN Searched(aClientId, "returned",
                                      Len(config.gsm), config.gsm,
                                      Len(config.cdma), config.cdma)
       /\ UNCHANGED notSearchVars

(* ------------------------------------------------------------------------ *)
(* _getCellBroadcastConfig as a function of the customized values            *)
(* ------------------------------------------------------------------------ *)

NotComputed == [done |-> FALSE, config |-> EmptyConfig]

ConfigInit ==
  /\ customization = DefaultCustomization
  /\ computed = NotComputed

(* the carrier's customization becomes c *)
Customize ==
  \E c \in Customizations :
    /\ customization' = c
    /\ computed' = NotComputed
    /\ UNCHANGED notConfigVars

(* config = this._getCellBroadcastConfig() *)
Compute ==
  /\ ~computed.done
  /\ computed' = [done |-> TRUE, config |-> _getCellBroadcastConfig(customization)]
  /\ UNCHANGED customization
  /\ UNCHANGED notConfigVars

(* ======================================================================== *)
(* nsRilWorker: the Radio HAL handle, the request forwarders, the dispatch   *)
(* of results to the main thread                                             *)
(* ======================================================================== *)

nullptr == "nullptr"

NS_OK == "NS_OK"

(* static hidl_string HIDL_SERVICE_NAME[3] = {"slot1", "slot2", "slot3"}; *)
HIDL_SERVICE_NAME == <<"slot1", "slot2", "slot3">>

(* the serial numbers a caller passes *)
Serials == {1, 2}

(* mRilMessageToken of a response; one that is not positive is an internal  *)
(* request                                                                   *)
Tokens == {-1, 0, 1}

(* how many runnables wait for the main thread at most *)
MaxQueue == 2

(* the threads: requests and runnables on the main thread, vendor callbacks  *)
(* on the thread of the HAL                                                  *)
MainThread == "main"

HalThread == "hal"

(* one event of a method call: a call on the handle h carrying serial s, a   *)
(* call of getService (h is what it returned), or a line of the log          *)
RilCall(c, h, s) == [call |-> c, on |-> h, serial |-> s]

INFO(text) == RilCall("INFO", text, 0)

ERROR(text) == RilCall("ERROR", text, 0)

(* what a method call leaves in request *)
Requested(m, s, t, tr, r) ==
  [method |-> m, serial |-> s, thread |-> t, trace |-> tr, ret |-> r]

NoRequest == Requested("none", 0, MainThread, <<>>, "none")

(* the runnables: a RilResultDispatcher holds a response or an indication *)
ResponseRunnable(token) == [mResponse |-> TRUE, mIndication |-> FALSE, token |-> token]

IndicationRunnable == [mResponse |-> FALSE, mIndication |-> TRUE, token |-> 0]

(* the event of a method call that posts runnable r to the main thread *)
NS_DispatchToMainThread(r) == RilCall("NS_DispatchToMainThread", r, 0)

(* a call on the listener, made on thread t by function f; flip tells two    *)
(* equal calls in a row apart                                                *)
Handled(k, m, t, f, b) == [kind |-> k, msg |-> m, thread |-> t, by |-> f, flip |-> b]

NotHandled == Handled("none", IndicationRunnable, MainThread, "none", FALSE)

NotRegistered == [linkToDeath |-> "none", setResponseFunctions |-> FALSE]

(* nsRilWorker::nsRilWorker, for the first slot *)
RilInit ==
  /\ mClientId = 0
  /\ mRadioProxy = nullptr
  /\ mDeathRecipient = nullptr
  /\ mRilCallback = nullptr
  /\ proxy = NotRegistered
  /\ rilAlive = TRUE
  /\ request = NoRequest
  /\ mainQueue = <<>>
  /\ handled = NotHandled

(* what IRadio::getService(HIDL_SERVICE_NAME[mClientId]) may return *)
getService == {nullptr, HIDL_SERVICE_NAME[mClientId + 1]}

(* nsRilWorker::GetRadioProxy, when getService returns h and linkToDeath     *)
(* returns linked: the handle afterwards                                     *)
GetRadioProxyHandle(h) == IF mRadioProxy # nullptr THEN mRadioProxy ELSE h

(* the events of GetRadioProxy *)
GetRadioProxyEvents(h, linked) ==
  IF mRadioProxy # nullptr
    THEN <<>>
    ELSE <<RilCall("getService", h, 0)>> \o
         (IF h # nullptr
            THEN <<RilCall("linkToDeath", h, 0)>> \o
                 (IF ~linked
                    THEN <<ERROR("Failed to link to radio hal death notifications")>>
                    ELSE <<>>) \o
                 <<RilCall("setResponseFunctions", h, 0)>>
            ELSE <<ERROR("Get Radio hal failed")>>)

(* a GetRadioProxy that caches the handle and registers nothing on it *)
GetRadioProxyUnregistered(h, linked) ==
  IF mRadioProxy # nullptr
    THEN UNCHANGED <<mRadioProxy, mDeathRecipient, proxy>>
    ELSE /\ mRadioProxy' = h
         /\ UNCHANGED <<mDeathRecipient, proxy>>

(* the assignments of GetRadioProxy *)
GetRadioProxy(h, linked) ==
  IF mRadioProxy # nullptr
    THEN UNCHANGED <<mRadioProxy, mDeathRecipient, proxy>>
    ELSE /\ mRadioProxy' = h
         /\ IF h # nullptr
              THEN /\ mDeathRecipient' = "RadioProxyDeathRecipient"
                   /\ proxy' = [linkToDeath |-> IF linked THEN "linked" ELSE "failed",
                                setResponseFunctions |-> TRUE]
              ELSE UNCHANGED <<mDeathRecipient, proxy>>

(* nsRilWorker::InitRil *)
InitRil ==
  /\ rilAlive
  /\ \E callback \in {nullptr, "nsIRilCallback"}, h \in getService, linked \in BOOLEAN :
       /\ mRilCallback' = callback
       /\ GetRadioProxy(h, linked)
       /\ request' = Requested("InitRil", 0, MainThread, GetRadioProxyEvents(h, linked), NS_OK)
  /\ UNCHANGED <<mClientId, rilAlive, mainQueue, handled>>
  /\ UNCHANGED notRilVars

(* a request forwarder that returns when it has no handle *)
ForwardChecked(method, announces, vendorCall) ==
  /\ rilAlive
  /\ \E serial \in Serials, h \in getService, linked \in BOOLEAN :
       LET handle == GetRadioProxyHandle(h)
           events == <<INFO(announces)>> \o
                     GetRadioProxyEvents(h, linked) \o
                     (IF handle = nullptr
                        THEN <<ERROR("No Radio HAL exist")>>
                        ELSE <<RilCall(vendorCall, handle, serial)>>)
       IN /\ GetRadioProxy(h, linked)
          /\ request' = Requested(method, serial, MainThread, events, NS_OK)
  /\ UNCHANGED <<mClientId, mRilCallback, rilAlive, mainQueue, handled>>
  /\ UNCHANGED notRilVars

(* A request forwarder: INFO(announces); GetRadioProxy();                    *)
(* if (mRadioProxy == nullptr) { ERROR("No Radio HAL exist"); }              *)
(* mRadioProxy->vendorCall(serial, ...); return NS_OK;                       *)
(* The call on a null handle is undefined: the process crashes, or the call  *)
(* returns and the method goes on.                                           *)
Forward(method, announces, vendorCall) ==
  /\ rilAlive
  /\ \E serial \in Serials, h \in getService, linked \in BOOLEAN, crash \in BOOLEAN :
       LET handle == GetRadioProxyHandle(h)
           events == <<INFO(announces)>> \o
                     GetRadioProxyEvents(h, linked) \o
                     (IF handle = nullptr THEN <<ERROR("No Radio HAL exist")>> ELSE <<>>) \o
                     <<RilCall(vendorCall, handle, serial)>>
       IN /\ GetRadioProxy(h, linked)
          /\ IF handle = nullptr /\ crash
               THEN /\ rilAlive' = FALSE
                    /\ request' = Requested(method, serial, MainThread, events, "crashed")
               ELSE /\ rilAlive' = TRUE
                    /\ request' = Requested(method, serial, MainThread, events, NS_OK)
  /\ UNCHANGED <<mClientId, mRilCallback, mainQueue, handled>>
  /\ UNCHANGED notRilVars

(* a method that writes its line to the log and returns *)
Stub(method, announces) ==
  /\ rilAlive
  /\ \E serial \in Serials :
       request' = Requested(method, serial, MainThread, <<INFO(announces)>>, NS_OK)
  /\ UNCHANGED <<mClientId, mRadioProxy, mDeathRecipient, mRilCallback, proxy,
                 rilAlive, mainQueue, handled>>
  /\ UNCHANGED notRilVars

SetRadioPower == Forward("SetRadioPower", "RIL_REQUEST_RADIO_POWER", "setRadioPower")

GetCallForwardStatus ==
  Forward("GetCallForwardStatus", "RIL_REQUEST_QUERY_CALL_FORWARD_STATUS",
          "getCallForwardStatus")

SetCallForwardStatus ==
  Forward("SetCallForwardStatus", "RIL_REQUEST_SET_CALL_FORWARD", "getCallForwardStatus")

ReportStkServiceIsRunning ==
  Forward("ReportStkServiceIsRunning", "RIL_REQUEST_REPORT_STK_SERVICE_IS_RUNNING",
          "reportStkServiceIsRunning")

SetGsmBroadcastActivation ==
  Stub("SetGsmBroadcastActivation", "RIL_REQUEST_GSM_BROADCAST_ACTIVATION")

SetGsmBroadcastConfig ==
  Stub("SetGsmBroadcastConfig", "RIL_REQUEST_GSM_SET_BROADCAST_CONFIG")

(* nsRilWorker::RadioProxyDeathRecipient::serviceDied, delivered on the      *)
(* thread of the HAL to the recipient that linkToDeath registered: it writes *)
(* one line to the log                                                       *)
serviceDied ==
  /\ rilAlive
  /\ mRadioProxy # nullptr
  /\ proxy.linkToDeath = "linked"
  /\ request' = Requested("serviceDied", 0, HalThread,
                          <<INFO("nsRilWorker HAL died, cleanup instance.")>>, "void")
  /\ UNCHANGED <<mClientId, mRadioProxy, mDeathRecipient, mRilCallback, proxy,
                 rilAlive, mainQueue, handled>>
  /\ UNCHANGED notRilVars

(* the events of nsRilWorker::sendAck: GetRadioProxy(); then                 *)
(* responseAcknowledgement() on the handle, or a line of the log when there  *)
(* is none                                                                   *)
sendAckEvents(h, linked) ==
  <<INFO("sendAck")>> \o
  GetRadioProxyEvents(h, linked) \o
  (IF GetRadioProxyHandle(h) # nullptr
     THEN <<RilCall("responseAcknowledgement", GetRadioProxyHandle(h), 0)>>
     ELSE <<ERROR("sendAck mRadioProxy == nullptr")>>)

(* nsRilWorker::sendAck, on the thread of the HAL *)
sendAck ==
  /\ rilAlive
  /\ \E h \in getService, linked \in BOOLEAN :
       /\ GetRadioProxy(h, linked)
       /\ request' = Requested("sendAck", 0, HalThread, sendAckEvents(h, linked), "void")
  /\ UNCHANGED <<mClientId, mRilCallback, rilAlive, mainQueue, handled>>
  /\ UNCHANGED notRilVars

(* the values of RadioResponseType and of RadioIndicationType *)
RadioResponseType == {"SOLICITED", "SOLICITED_ACK", "SOLICITED_ACK_EXP"}

RadioIndicationType == {"UNSOLICITED", "UNSOLICITED_ACK_EXP"}

(* a method of the HAL thread that writes the type it was given to the log   *)
(* and calls sendAck() when the type is expected                             *)
AckWhen(method, type, expected) ==
  /\ rilAlive
  /\ IF expected
       THEN \E h \in getService, linked \in BOOLEAN :
              /\ GetRadioProxy(h, linked)
              /\ request' = Requested(method, 0, HalThread,
                                      <<INFO(type)>> \o sendAckEvents(h, linked), "void")
       ELSE /\ UNCHANGED <<mRadioProxy, mDeathRecipient, proxy>>
            /\ request' = Requested(method, 0, HalThread, <<INFO(type)>>, "void")
  /\ UNCHANGED <<mClientId, mRilCallback, rilAlive, mainQueue, handled>>
  /\ UNCHANGED notRilVars

(* a processResponse that acknowledges every response *)
processResponseAlwaysAcks ==
  \E responseType \in RadioResponseType :
    AckWhen("processResponse", responseType, TRUE)

(* nsRilWorker::processResponse *)
processResponse ==
  \E responseType \in RadioResponseType :
    AckWhen("processResponse", responseType, responseType = "SOLICITED_ACK_EXP")

(* nsRilWorker::processIndication *)
processIndication ==
  \E indicationType \in RadioIndicationType :
    AckWhen("processIndication", indicationType, indicationType = "UNSOLICITED_ACK_EXP")

(* a sendRilIndicationResult that calls the listener itself, on the thread   *)
(* of the HAL                                                                *)
sendRilIndicationResultDirect ==
  /\ rilAlive
  /\ IF mRilCallback # nullptr
       THEN handled' = Handled("HandleRilIndication", IndicationRunnable, HalThread,
                               "sendRilIndicationResult", ~handled.flip)
       ELSE UNCHANGED handled
  /\ UNCHANGED <<mClientId, mRadioProxy, mDeathRecipient, mRilCallback, proxy,
                 rilAlive, request, mainQueue>>
  /\ UNCHANGED notRilVars

(* nsRilWorker::sendRilIndicationResult, on the thread of the HAL:           *)
(* NS_DispatchToMainThread(new RilResultDispatcher(this, aIndication))       *)
sendRilIndicationResult ==
  /\ rilAlive
  /\ Len(mainQueue) < MaxQueue
  /\ mainQueue' = Append(mainQueue, IndicationRunnable)
  /\ request' = Requested("sendRilIndicationResult", 0, HalThread,
                          <<NS_DispatchToMainThread(IndicationRunnable)>>, "void")
  /\ UNCHANGED <<mClientId, mRadioProxy, mDeathRecipient, mRilCallback, proxy,
                 rilAlive, handled>>
  /\ UNCHANGED notRilVars

(* a sendRilResponseResult that posts every response, whatever its token *)
sendRilResponseResultAlways ==
  /\ rilAlive
  /\ Len(mainQueue) < MaxQueue
  /\ \E token \in Tokens :
       /\ mainQueue' = Append(mainQueue, ResponseRunnable(token))
       /\ request' = Requested("sendRilResponseResult", token, HalThread,
                               <<NS_DispatchToMainThread(ResponseRunnable(token))>>, "void")
  /\ UNCHANGED <<mClientId, mRadioProxy, mDeathRecipient, mRilCallback, proxy,
                 rilAlive, handled>>
  /\ UNCHANGED notRilVars

(* nsRilWorker::sendRilResponseResult, on the thread of the HAL:             *)
(* if (aResponse->mRilMessageToken > 0) NS_DispatchToMainThread(...)         *)
sendRilResponseResult ==
  /\ rilAlive
  /\ Len(mainQueue) < MaxQueue
  /\ \E token \in Tokens :
       IF token > 0
         THEN /\ mainQueue' = Append(mainQueue, ResponseRunnable(token))
              /\ request' = Requested("sendRilResponseResult", token, HalThread,
                                      <<NS_DispatchToMainThread(ResponseRunnable(token))>>,
                                      "void")
         ELSE /\ UNCHANGED mainQueue
              /\ request' = Requested("sendRilResponseResult", token, HalThread,
                                      <<INFO("ResponseResult internal reqeust.")>>, "void")
  /\ UNCHANGED <<mClientId, mRadioProxy, mDeathRecipient, mRilCallback, proxy,
                 rilAlive, handled>>
  /\ UNCHANGED notRilVars

(* RilResultDispatcher::Run, on the main thread, for the first runnable      *)
(* waiting                                                                   *)
Run ==
  /\ rilAlive
  /\ mainQueue # <<>>
  /\ mainQueue' = Tail(mainQueue)
  /\ LET r == Head(mainQueue)
     IN IF mRilCallback # nullptr
          THEN IF r.mResponse
                 THEN handled' = Handled("HandleRilResponse", r, MainThread, "Run",
                                         ~handled.flip)
                 ELSE IF r.mIndication
                        THEN handled' = Handled("HandleRilIndication", r, MainThread,
                                                "Run", ~handled.flip)
                        ELSE UNCHANGED handled
          ELSE UNCHANGED handled
  /\ UNCHANGED <<mClientId, mRadioProxy, mDeathRecipient, mRilCallback, proxy,
                 rilAlive, request>>
  /\ UNCHANGED notRilVars

(* nsRilWorker::nsRilWorker(aClientId): the worker of a slot is created, at  *)
(* the start or when the process starts again after a crash                  *)
nsRilWorker ==
  /\ ~rilAlive \/ request = NoRequest
  /\ \E aClientId \in 0..(NumSlots - 1) : mClientId' = aClientId
  /\ mRadioProxy' = nullptr
  /\ mDeathRecipient' = nullptr
  /\ mRilCallback' = nullptr
  /\ proxy' = NotRegistered
  /\ rilAlive' = TRUE
  /\ request' = NoRequest
  /\ mainQueue' = <<>>
  /\ handled' = NotHandled
  /\ UNCHANGED notRilVars

(* ======================================================================== *)
(* WifiNative::ExecuteCommand and WifiNative::Connect                        *)
(* ======================================================================== *)

(* the commands of nsIWifiCommand that ExecuteCommand knows, and the method  *)
(* it calls for each                                                         *)
MethodOf ==
  [INITIALIZE |-> "InitHal",
   GET_MODULE_VERSION |-> "GetDriverModuleInfo",
   GET_CAPABILITIES |-> "GetCapabilities",
   SET_LOW_LATENCY_MODE |-> "SetLowLatencyMode",
   SET_CONCURRENCY_PRIORITY |-> "SetConcurrencyPriority",
   START_WIFI |-> "StartWifi",
   STOP_WIFI |-> "StopWifi",
   GET_MAC_ADDRESS |-> "GetMacAddress",
   GET_STA_IFACE |-> "GetClientInterfaceName",
   GET_STA_CAPABILITIES |-> "GetStaCapabilities",
   GET_DEBUG_LEVEL |-> "GetDebugLevel",
   SET_DEBUG_LEVEL |-> "SetDebugLevel",
   SET_POWER_SAVE |-> "SetPowerSave",
   SET_SUSPEND_MODE |-> "SetSuspendMode",
   SET_EXTERNAL_SIM |-> "SetExternalSim",
   SET_AUTO_RECONNECT |-> "SetAutoReconnect",
   SET_COUNTRY_CODE |-> "SetCountryCode",
   SET_BT_COEXIST_MODE |-> "SetBtCoexistenceMode",
   SET_BT_COEXIST_SCAN_MODE |-> "SetBtCoexistenceScanMode",
   START_SINGLE_SCAN |-> "StartSingleScan",
   STOP_SINGLE_SCAN |-> "StopSingleScan",
   START_PNO_SCAN |-> "StartPnoScan",
   STOP_PNO_SCAN |-> "StopPnoScan",
   GET_SCAN_RESULTS |-> "GetScanResults",
   GET_PNO_SCAN_RESULTS |-> "GetPnoScanResults",
   GET_CHANNELS_FOR_BAND |-> "GetChannelsForBand",
   CONNECT |-> "Connect",
   RECONNECT |-> "Reconnect",
   REASSOCIATE |-> "Reassociate",
   DISCONNECT |-> "Disconnect",
   REMOVE_NETWORKS |-> "RemoveNetworks",
   START_SOFTAP |-> "StartSoftAp",
   STOP_SOFTAP |-> "StopSoftAp",
   GET_AP_IFACE |-> "GetSoftApInterfaceName",
   GET_SOFTAP_STATION_NUMBER |-> "GetSoftapStations"]

Commands == DOMAIN MethodOf

(* a value of mCmd that is none of them *)
UnknownCommand == "UNKNOWN"

(* the opaque ids of aOptions.mId *)
CommandIds == {1, 2}

(* what one ExecuteCommand call leaves in executed: the command and id it    *)
(* was given, the methods it called and what the last returned, mStatus      *)
(* before the call, and what ExecuteCommand returned                         *)
Executed(cmd, id, methods, status, before, r) ==
  [cmd |-> cmd, id |-> id, methods |-> methods, status |-> status,
   before |-> before, ret |-> r]

ExecInit ==
  /\ aResult = [mId |-> 0, mStatus |-> "unset"]
  /\ executed = Executed("none", 0, <<>>, "none", "unset", "none")

(* an ExecuteCommand that stores the id where it stores the status, and so   *)
(* not for an unknown command                                                *)
ExecuteCommandIdWithStatus ==
  /\ \E cmd \in Commands \cup {UnknownCommand}, id \in CommandIds,
        status \in Results, empty \in BOOLEAN :
       IF cmd \in Commands
         THEN /\ aResult' = [mId |-> id, mStatus |-> status]
              /\ executed' =
                   Executed(cmd, id, <<MethodOf[cmd]>>, status, aResult.mStatus,
                            IF cmd = "GET_SCAN_RESULTS" /\ empty THEN FALSE ELSE TRUE)
         ELSE /\ UNCHANGED aResult
              /\ executed' = Executed(cmd, id, <<>>, "none", aResult.mStatus, FALSE)
  /\ UNCHANGED notExecVars

(* WifiNative::ExecuteCommand.  The method called returns status; for        *)
(* GET_SCAN_RESULTS, empty tells whether it left nativeScanResults empty.    *)
ExecuteCommand ==
  /\ \E cmd \in Commands \cup {UnknownCommand}, id \in CommandIds,
        status \in Results, empty \in BOOLEAN :
       IF cmd \in Commands
         THEN /\ aResult' = [mId |-> id, mStatus |-> status]
              /\ executed' =
                   Executed(cmd, id, <<MethodOf[cmd]>>, status, aResult.mStatus,
                            IF cmd = "GET_SCAN_RESULTS" /\ empty THEN FALSE ELSE TRUE)
         ELSE /\ aResult' = [aResult EXCEPT !.mId = id]
              /\ executed' = Executed(cmd, id, <<>>, "none", aResult.mStatus, FALSE)
  /\ UNCHANGED notExecVars

(* WifiNative::Connect: s_WificondControl->StopSingleScan(), whose value is  *)
(* dropped; result = s_SupplicantStaManager->ConnectToNetwork(aConfig);      *)
(* return result (SUCCESS when it is SUCCESS)                                *)
Connect ==
  /\ pc = "idle"
  /\ \E r1, r2 \in Results :
       /\ op' = "Connect"
       /\ log' = <<Call("WificondControl.StopSingleScan", r1),
                   Call("SupplicantStaManager.ConnectToNetwork", r2)>>
       /\ Return(r2, trip)
  /\ ResetLocals
  /\ UNCHANGED <<hal, mStaInterfaceName, mApInterfaceName, entry>>
  /\ UNCHANGED notWifiVars

(* ------------------------------------------------------------------------ *)
(* GetRadioProxy statement by statement, called on the main thread by the    *)
(* request methods and on the thread of the HAL by sendAck, with no lock      *)
(* ------------------------------------------------------------------------ *)

Threads == {MainThread, HalThread}

(* the number of GetRadioProxy calls a thread makes *)
MaxProxyCalls == 2

RaceInit ==
  /\ at = [t \in Threads |-> "idle"]
  /\ fetched = [t \in Threads |-> nullptr]
  /\ began = [t \in Threads |-> 0]
  /\ halCalls = [getService |-> 0, afterHandle |-> 0, linkToDeath |-> 0,
              setResponseFunctions |-> 0, handles |-> 0]

(* what the steps of GetRadioProxy leave alone *)
notRaceVars == <<wifiVars, cbVars, configVars, execVars, searchVars>>

(* a method on thread t halCalls GetRadioProxy *)
GRP_Call(t) ==
  /\ rilAlive
  /\ at[t] = "idle"
  /\ began[t] < MaxProxyCalls
  /\ began' = [began EXCEPT ![t] = @ + 1]
  /\ at' = [at EXCEPT ![t] = "check"]
  /\ UNCHANGED <<fetched, halCalls>>
  /\ UNCHANGED rilVars
  /\ UNCHANGED notRaceVars

(* if (mRadioProxy != nullptr) return; *)
GRP_Check(t) ==
  /\ rilAlive
  /\ at[t] = "check"
  /\ at' = [at EXCEPT ![t] = IF mRadioProxy # nullptr THEN "idle" ELSE "getService"]
  /\ UNCHANGED <<fetched, began, halCalls>>
  /\ UNCHANGED rilVars
  /\ UNCHANGED notRaceVars

(* IRadio::getService(HIDL_SERVICE_NAME[mClientId]) *)
GRP_GetService(t) ==
  /\ rilAlive
  /\ at[t] = "getService"
  /\ \E h \in getService :
       /\ fetched' = [fetched EXCEPT ![t] = h]
       /\ halCalls' = [halCalls EXCEPT
                      !.getService = @ + 1,
                      !.afterHandle = IF halCalls.handles > 0 THEN @ + 1 ELSE @,
                      !.handles = IF h # nullptr THEN @ + 1 ELSE @]
  /\ at' = [at EXCEPT ![t] = "assign"]
  /\ UNCHANGED began
  /\ UNCHANGED rilVars
  /\ UNCHANGED notRaceVars

(* mRadioProxy = <what getService returned>; if (mRadioProxy != nullptr).    *)
(* The write is not ordered with the reads and writes of a thread that is in *)
(* GetRadioProxy at the same time: a data race on the strong pointer, whose  *)
(* outcomes are the write taking place and the process crashing              *)
GRP_Assign(t) ==
  /\ rilAlive
  /\ at[t] = "assign"
  /\ \E crash \in {FALSE} \cup {\E u \in Threads \ {t} : at[u] # "idle"} :
       IF crash
         THEN /\ rilAlive' = FALSE
              /\ at' = [u \in Threads |-> "idle"]
              /\ UNCHANGED <<mRadioProxy>>
         ELSE /\ mRadioProxy' = fetched[t]
              /\ at' = [at EXCEPT ![t] = IF fetched[t] # nullptr THEN "linkToDeath" ELSE "idle"]
              /\ UNCHANGED rilAlive
  /\ UNCHANGED <<fetched, began, halCalls>>
  /\ UNCHANGED <<mClientId, mDeathRecipient, mRilCallback, proxy, request, mainQueue, handled>>
  /\ UNCHANGED notRaceVars

(* if (mDeathRecipient == nullptr) mDeathRecipient = new ...;                *)
(* mRadioProxy->linkToDeath(mDeathRecipient, 0)                              *)
GRP_LinkToDeath(t) ==
  /\ rilAlive
  /\ at[t] = "linkToDeath"
  /\ \E linked \in BOOLEAN :
       proxy' = [proxy EXCEPT !.linkToDeath = IF linked THEN "linked" ELSE "failed"]
  /\ mDeathRecipient' = "RadioProxyDeathRecipient"
  /\ halCalls' = [halCalls EXCEPT !.linkToDeath = @ + 1]
  /\ at' = [at EXCEPT ![t] = "setResponseFunctions"]
  /\ UNCHANGED <<fetched, began>>
  /\ UNCHANGED <<mClientId, mRadioProxy, mRilCallback, rilAlive, request, mainQueue, handled>>
  /\ UNCHANGED notRaceVars

(* mRadioProxy->setResponseFunctions(mRilResponse, mRilIndication) *)
GRP_SetResponseFunctions(t) ==
  /\ rilAlive
  /\ at[t] = "setResponseFunctions"
  /\ proxy' = [proxy EXCEPT !.setResponseFunctions = TRUE]
  /\ halCalls' = [halCalls EXCEPT !.setResponseFunctions = @ + 1]
  /\ at' = [at EXCEPT ![t] = "idle"]
  /\ UNCHANGED <<fetched, began>>
  /\ UNCHANGED <<mClientId, mRadioProxy, mDeathRecipient, mRilCallback, rilAlive,
                 request, mainQueue, handled>>
  /\ UNCHANGED notRaceVars

(* ======================================================================== *)
(* Specifications                                                            *)
(* ======================================================================== *)

Init == WifiInit /\ CBInit /\ ConfigInit /\ RilInit /\ ExecInit /\ SearchInit /\ RaceInit

(* Station mode: START_WIFI and STOP_WIFI commands *)
StaNext == StartWifi \/ StopWifi

SpecSta == Init /\ [][StaNext]_vars

(* Access-point mode: START_SOFTAP and STOP_SOFTAP commands *)
ApNext == StartSoftAp \/ StopSoftAp

SpecAp == Init /\ [][ApNext]_vars

(* Both modes *)
WifiNext == StaNext \/ ApNext

SpecWifi == Init /\ [][WifiNext]_vars

(* The cell-broadcast handlers *)
CBNext == notifyIccInfoChanged \/ getRadioInterface

SpecCB == Init /\ [][CBNext]_vars

(* The cell broadcast service with its getCBSearchList *)
CBSearchNext == CBNext \/ getCBSearchList

SpecCBSearch == Init /\ [][CBSearchNext]_vars

(* The computed configuration, for every customization *)
ConfigNext == Customize \/ Compute

SpecCBConfig == Init /\ [][ConfigNext]_vars

(* GetRadioProxy on the main thread and on the thread of the HAL *)
RilRaceNext ==
  \E t \in Threads :
    \/ GRP_Call(t)
    \/ GRP_Check(t)
    \/ GRP_GetService(t)
    \/ GRP_Assign(t)
    \/ GRP_LinkToDeath(t)
    \/ GRP_SetResponseFunctions(t)

SpecRilRace == Init /\ [][RilRaceNext]_vars

(* Station mode with the CONNECT command *)
StaConnectNext == StaNext \/ Connect

SpecStaConnect == Init /\ [][StaConnectNext]_vars

(* One nsRilWorker: requests and runnables on the main thread, vendor        *)
(* callbacks on the thread of the HAL                                        *)
RilNext ==
  \/ InitRil
  \/ SetRadioPower
  \/ GetCallForwardStatus
  \/ SetCallForwardStatus
  \/ ReportStkServiceIsRunning
  \/ SetGsmBroadcastActivation
  \/ SetGsmBroadcastConfig
  \/ sendAck
  \/ serviceDied
  \/ processResponse
  \/ processIndication
  \/ sendRilIndicationResult
  \/ sendRilResponseResult
  \/ Run
  \/ nsRilWorker

SpecRil == Init /\ [][RilNext]_vars

(* The commands given to ExecuteCommand *)
ExecNext == ExecuteCommand

SpecExec == Init /\ [][ExecNext]_vars

(* ======================================================================== *)
(* Properties of the Wi-Fi orchestrator                                      *)
(* ======================================================================== *)

(* position of the first call c in l; 0 when l holds none *)
Pos(l, c) ==
  IF \E i \in 1..Len(l) : l[i].call = c
    THEN CHOOSE i \in 1..Len(l) : l[i].call = c /\ \A j \in 1..(i - 1) : l[j].call # c
    ELSE 0

(* how many times l holds call c *)
Count(l, c) == Cardinality({i \in 1..Len(l) : l[i].call = c})

(* the returns of WifiNative's own helpers, which log records beside the     *)
(* calls on the wrappers                                                     *)
HelperReturns == {"WifiNative.StartSupplicant", "WifiNative.StopSupplicant",
                  "WifiNative.StartAndConnectHostapd", "WifiNative.StopHostapd"}

IsVendorCall(e) == e.call \notin HelperReturns

(* the calls of l on the wrappers *)
VendorCalls(l) == SelectSeq(l, IsVendorCall)

(* the steps of StartWifi, in the order of its contract *)
StartWifiSteps ==
  <<"WifiHal.StartWifiModule",
    "WifiHal.ConfigChipAndCreateIface(STA)",
    "WificondEventService.CreateService",
    "WifiNative.StartSupplicant",
    "SupplicantStaManager.RegisterDeathHandler",
    "WificondControl.SetupClientIface",
    "SupplicantStaManager.SetupStaInterface">>

(* the positions inside StartSupplicant, and the one right after it *)
InStartSupplicant == {"SS_IsInterfaceReady", "SS_InitInterface", "SS_StartSupplicant",
                      "SS_Loop", "SS_Return", "SW_AfterStartSupplicant"}

StartWifiFallibleSteps ==
  {"WifiHal.StartWifiModule",
   "WifiHal.ConfigChipAndCreateIface(STA)",
   "WificondEventService.CreateService",
   "WifiNative.StartSupplicant",
   "WificondControl.SetupClientIface",
   "SupplicantStaManager.SetupStaInterface"}

(* the status StartWifi returns for a failed step: the step's own error, and *)
(* ERROR_COMMAND_FAILED for an event service that was not created            *)
StepError(e) == IF e.res = "nullptr" THEN ERROR_COMMAND_FAILED ELSE e.res

(* C2: a step of StartWifi that fails aborts it: no later step is made (the  *)
(* clean-up TearDownClientInterface apart) and StartWifi returns the step's  *)
(* error.                                                                    *)
C2_StartWifiAbortsOnFailure ==
  op = "StartWifi" =>
    \A i \in 1..Len(log) :
      (log[i].call \in StartWifiFallibleSteps /\ log[i].res # SUCCESS) =>
        /\ \A j \in (i + 1)..Len(log) :
             log[j].call = "WificondControl.TearDownClientInterface"
        /\ pc = "idle" => ret = StepError(log[i])

(* the readiness loop was entered by the helper that has just returned *)
LoopRan ==
  /\ Len(log) >= 2
  /\ log[Len(log) - 1] \in {Call("WificondControl.StartSupplicant", SUCCESS),
                            Call("SoftapManager.InitInterface", SUCCESS)}

AfterHelper == {"SW_AfterStartSupplicant", "SA_AfterStartHostapd"}

(* C3: the readiness loop never polls more than CONNECTION_RETRY_TIMES       *)
(* times; when no poll reported ready, StartSupplicant and                   *)
(* StartAndConnectHostapd return after exactly CONNECTION_RETRY_TIMES polls  *)
(* with a status other than SUCCESS, and so does the operation.              *)
C3_RetryLoopFailsAfterMaxPolls ==
  /\ polls <= CONNECTION_RETRY_TIMES
  /\ (pc \in AfterHelper /\ LoopRan /\ ~connected) =>
       /\ polls = CONNECTION_RETRY_TIMES
       /\ result # SUCCESS
  /\ (pc = "idle" /\ op \in {"StartWifi", "StartSoftAp"}) =>
       \A c \in {"WifiNative.StartSupplicant", "WifiNative.StartAndConnectHostapd"} :
         (Pos(log, c) > 0 /\ log[Pos(log, c)].res # SUCCESS) =>
           ret = log[Pos(log, c)].res

(* StartSupplicant has returned after a loop in which no poll reported ready *)
C3_Witness ==
  /\ pc = "SW_AfterStartSupplicant"
  /\ LoopRan
  /\ ~connected
  /\ polls = CONNECTION_RETRY_TIMES

(* C4: the poll that first reports ready ends the loop: from then on the     *)
(* thread is past the loop, no poll and no sleep follows that poll (every    *)
(* earlier poll was followed by one sleep), and the helper returns SUCCESS.  *)
C4_FirstReadyPollSucceeds ==
  connected =>
    /\ pc \in {"SS_Return", "SH_Return"} \cup AfterHelper
    /\ polls \in 1..CONNECTION_RETRY_TIMES
    /\ connectTries = polls
    /\ sleeps = polls - 1
    /\ pc \in AfterHelper => result = SUCCESS

(* StartSupplicant has returned SUCCESS on its third poll *)
C4_Witness ==
  /\ pc = "SW_AfterStartSupplicant"
  /\ connected
  /\ polls = 3
  /\ result = SUCCESS

(* the state of the layers that StartWifi touches *)
RoundTripLayers == {"module", "staIface", "eventService", "supplicantHal",
                    "supplicantDaemon", "deathHandler", "clientIface"}

(* C5: after a StartWifi and the StopWifi that follows it, both returning    *)
(* SUCCESS, the driver module, the STA interface, the event service, the     *)
(* supplicant HAL client and daemon, the death handler and the wificond      *)
(* client interface are as they were before StartWifi.                       *)
C5_RoundTripIsNoOp ==
  (trip.phase = "done" /\ trip.kind = "sta") =>
    \A l \in RoundTripLayers : hal[l] = trip.before[l]

(* the layers of station mode, the call of StartWifi that sets each up and   *)
(* the call of StopWifi that tears it down                                   *)
StaOrderLayers == {"driver", "supplicant", "deathHandler", "clientIface", "supplicantStaIface"}

StaSetupCall(l) ==
  CASE l = "driver" -> "WifiHal.ConfigChipAndCreateIface(STA)"
    [] l = "supplicant" -> "WifiNative.StartSupplicant"
    [] l = "deathHandler" -> "SupplicantStaManager.RegisterDeathHandler"
    [] l = "clientIface" -> "WificondControl.SetupClientIface"
    [] l = "supplicantStaIface" -> "SupplicantStaManager.SetupStaInterface"

StaTeardownCall(l) ==
  CASE l = "driver" -> "WifiHal.TearDownInterface(STA)"
    [] l = "supplicant" -> "WifiNative.StopSupplicant"
    [] l = "deathHandler" -> "SupplicantStaManager.UnregisterDeathHandler"
    [] l = "clientIface" -> "WificondControl.TearDownClientInterface"
    [] l = "supplicantStaIface" -> "SupplicantStaManager.DeinitInterface"

(* StopWifi runs right after a StartWifi that returned SUCCESS *)
InStaRoundTrip == op = "StopWifi" /\ trip.kind = "sta" /\ trip.phase \in {"stop", "done"}

(* StartWifi set a up before b, and StopWifi has torn both down *)
StaPair(a, b) ==
  /\ Pos(trip.startLog, StaSetupCall(a)) > 0
  /\ Pos(trip.startLog, StaSetupCall(a)) < Pos(trip.startLog, StaSetupCall(b))
  /\ Pos(log, StaTeardownCall(a)) > 0
  /\ Pos(log, StaTeardownCall(b)) > 0

ApOrderLayers == {"module", "hostapdHal", "apIface", "wificondApIface", "softap"}

ApSetupCall(l) ==
  CASE l = "module" -> "WifiHal.StartWifiModule"
    [] l = "hostapdHal" -> "WifiNative.StartAndConnectHostapd"
    [] l = "apIface" -> "WifiHal.ConfigChipAndCreateIface(AP)"
    [] l = "wificondApIface" -> "WificondControl.SetupApIface"
    [] l = "softap" -> "SoftapManager.StartSoftap"

ApTeardownCall(l) ==
  CASE l = "module" -> "WifiHal.TearDownInterface(AP)"
    [] l = "hostapdHal" -> "WifiNative.StopHostapd"
    [] l = "apIface" -> "WifiHal.TearDownInterface(AP)"
    [] l = "wificondApIface" -> "WificondControl.TearDownSoftapInterface"
    [] l = "softap" -> "SoftapManager.StopSoftap"

(* when StopSoftAp tears layer l down: the call's position, the module last  *)
(* within its call                                                           *)
ApTeardownRank(l) ==
  2 * Pos(log, ApTeardownCall(l)) + (IF l = "module" THEN 1 ELSE 0)

(* StopSoftAp runs right after a StartSoftAp that returned SUCCESS *)
InApRoundTrip == op = "StopSoftAp" /\ trip.kind = "ap" /\ trip.phase \in {"stop", "done"}

(* C7: StopSoftAp tears the layers down in the inverse of the order in which *)
(* StartSoftAp set them up.                                                  *)
C7_StopSoftApIsInverse ==
  InApRoundTrip =>
    \A a, b \in ApOrderLayers :
      ( /\ Pos(trip.startLog, ApSetupCall(a)) > 0
        /\ Pos(trip.startLog, ApSetupCall(a)) < Pos(trip.startLog, ApSetupCall(b))
        /\ Pos(log, ApTeardownCall(a)) > 0
        /\ Pos(log, ApTeardownCall(b)) > 0 ) =>
      ApTeardownRank(b) < ApTeardownRank(a)

(* the layers a stop operation is there to tear down *)
StaStopLayers == {"supplicantStaIface", "supplicantHal", "supplicantDaemon",
                  "clientIface", "deathHandler", "staIface", "module"}

ApStopLayers == {"softap", "wificondApIface", "hostapdHal", "apIface", "module"}

StopLayers(o) == IF o = "StopWifi" THEN StaStopLayers ELSE ApStopLayers

(* the calls a stop operation makes on the wrappers when none fails *)
StopVendorCalls(o) ==
  IF o = "StopWifi"
    THEN <<"SupplicantStaManager.DeinitInterface",
           "WificondControl.StopSupplicant",
           "WificondControl.TearDownClientInterface",
           "SupplicantStaManager.UnregisterDeathHandler",
           "WifiHal.TearDownInterface(STA)">>
    ELSE <<"SoftapManager.StopSoftap",
           "WificondControl.TearDownSoftapInterface",
           "SoftapManager.DeinitInterface",
           "WifiHal.TearDownInterface(AP)">>

(* the layers that call c tears down *)
TornDownBy(c) == {l \in Layers : ~HalEffect([k \in Layers |-> TRUE], c, SUCCESS)[l]}

(* a stop operation has returned, having begun with a layer of its own torn  *)
(* down already                                                              *)
StoppedPartlyDown ==
  /\ pc = "idle"
  /\ op \in {"StopWifi", "StopSoftAp"}
  /\ \E l \in StopLayers(op) : ~entry[l]

SameLists(a, b) == a.gsm = b.gsm /\ a.cdma = b.cdma

(* C9: when _updateCellBroadcastConfig has computed a configuration, it      *)
(* calls setCBSearchList not at all if the computed configuration is         *)
(* list-for-list identical (gsm and cdma) to the stored one, which stays;    *)
(* and exactly once, with the computed lists and their lengths, if it        *)
(* differs in length or content, and the computed one is stored.             *)
C9_PushOnlyOnDelta ==
  lastNotify.computed =>
    LET id == lastNotify.clientId
        old == lastNotify.old
        new == lastNotify.new
    IN IF SameLists(old, new)
         THEN /\ lastNotify.pushes = 0
              /\ _config[id] = old
         ELSE /\ lastNotify.pushes = 1
              /\ searchList[id] = SearchListArgs(Len(new.gsm), new.gsm,
                                                 Len(new.cdma), new.cdma)
              /\ _config[id] = new

(* a configuration was pushed for a client, and a later update of the same   *)
(* client computed the identical configuration and pushed nothing            *)
C9_Witness ==
  /\ lastNotify.computed
  /\ lastNotify.pushes = 0
  /\ SameLists(lastNotify.old, lastNotify.new)
  /\ lastNotify.clientId \in ClientIds
  /\ searchList[lastNotify.clientId].set
  /\ Len(lastNotify.new.gsm) > 0

(* the half-open ranges a list holds: its elements, two by two *)
RangeSet(a) == {<<a[2 * i - 1], a[2 * i]>> : i \in 1..(Len(a) \div 2)}

(* the ranges of one alert class, when the class is enabled *)
When(on, ranges) == IF on THEN ranges ELSE {}

(* the alert classes the customized values c enable *)
AlertClasses(c) ==
  [etws |-> c.KEY_ENABLE_EMERGENCY_ALERTS,
   extreme |-> c.KEY_ENABLE_EMERGENCY_ALERTS /\ c.KEY_ENABLE_CMAS_EXTREME_THREAT_ALERTS,
   severe |-> c.KEY_ENABLE_EMERGENCY_ALERTS /\ c.KEY_ENABLE_CMAS_SEVERE_THREAT_ALERTS,
   amber |-> c.KEY_ENABLE_EMERGENCY_ALERTS /\ c.KEY_ENABLE_CMAS_AMBER_ALERTS,
   etwsTest |-> /\ ~c.KEY_CARRIER_FORCE_DISABLE_ETWS_CMAS_TEST_BOOL
                /\ c.KEY_ENABLE_EMERGENCY_ALERTS
                /\ c.KEY_ENABLE_ETWS_TEST_ALERTS,
   cmasTest |-> /\ ~c.KEY_CARRIER_FORCE_DISABLE_ETWS_CMAS_TEST_BOOL
                /\ c.KEY_ENABLE_EMERGENCY_ALERTS
                /\ c.KEY_ENABLE_CMAS_TEST_ALERTS]

(* the documented GSM ranges: ETWS 4352~4354 and 4356, the ETWS test         *)
(* message, CMAS presidential 4370, extreme 4371~4372, amber 4379, test      *)
(* 4380~4382, and for the additional languages 4383, 4384~4385, 4386~4391,   *)
(* 4392 and 4393~4395                                                        *)
DocumentedGsm(c) ==
  LET on == AlertClasses(c)
  IN When(on.etws, {<<4352, 4355>>, <<4356, 4357>>})
       \cup When(on.etwsTest,
                 {<<MESSAGE_ID_ETWS_TEST_MESSAGE, MESSAGE_ID_ETWS_TEST_MESSAGE + 1>>})
       \cup {<<4370, 4371>>}
       \cup When(on.extreme, {<<4371, 4373>>})
       \cup When(on.amber, {<<4379, 4380>>})
       \cup When(on.cmasTest, {<<4380, 4383>>})
       \cup {<<4383, 4384>>}
       \cup When(on.extreme, {<<4384, 4386>>})
       \cup When(on.severe, {<<4386, 4392>>})
       \cup When(on.amber, {<<4392, 4393>>})
       \cup When(on.cmasTest, {<<4393, 4396>>})

(* the documented CDMA ranges: one service category per alert class *)
DocumentedCdma(c) ==
  LET on == AlertClasses(c)
      One(x) == {<<x, x + 1>>}
  IN One(SERVICE_CATEGORY_CMAS_PRESIDENTIAL_LEVEL_ALERT)
       \cup When(on.extreme, One(SERVICE_CATEGORY_CMAS_EXTREME_THREAT))
       \cup When(on.severe, One(SERVICE_CATEGORY_CMAS_SEVERE_THREAT))
       \cup When(on.amber, One(SERVICE_CATEGORY_CMAS_CHILD_ABDUCTION_EMERGENCY))
       \cup When(on.cmasTest, One(SERVICE_CATEGORY_CMAS_TEST_MESSAGE))

(* C10: for every combination of the customization flags, the lists that     *)
(* _getCellBroadcastConfig returns hold exactly the documented ranges of the *)
(* enabled alert classes: each is present exactly when its class is enabled, *)
(* and nothing else is present.                                              *)
C10_MatchesRangeTable ==
  computed.done =>
    /\ RangeSet(computed.config.gsm) = DocumentedGsm(customization)
    /\ RangeSet(computed.config.cdma) = DocumentedCdma(customization)

(* an iccInfo that holds both an mcc and an mnc *)
HasCode(i) == i.present /\ i.mcc # "" /\ i.mnc # ""

(* C11: notifyIccInfoChanged calls _updateCellBroadcastConfig exactly when   *)
(* iccInfo has both mcc and mnc and mcc+mnc differs from the stored _mccmnc, *)
(* and it then stores the new code; a notification with an unchanged code or *)
(* with a missing mcc or mnc computes nothing, pushes nothing and leaves the *)
(* stored code and configuration as they were.                               *)
C11_RecomputeOnlyOnCodeChange ==
  lastNotify.clientId \in ClientIds =>
    LET n == lastNotify
        id == lastNotify.clientId
        code == lastNotify.iccInfo.mcc \o lastNotify.iccInfo.mnc
        changed == HasCode(lastNotify.iccInfo) /\ code # lastNotify.mccmnc
    IN /\ n.updated <=> changed
       /\ n.computed => n.updated
       /\ changed => _mccmnc[id] = code
       /\ ~changed =>
            /\ ~n.computed
            /\ n.pushes = 0
            /\ _mccmnc[id] = n.mccmnc
            /\ _config[id] = n.old

(* a client whose configuration was pushed is notified again with the code   *)
(* it has already: nothing is updated                                        *)
C11_Witness ==
  /\ lastNotify.clientId \in ClientIds
  /\ HasCode(lastNotify.iccInfo)
  /\ lastNotify.iccInfo.mcc \o lastNotify.iccInfo.mnc = lastNotify.mccmnc
  /\ ~lastNotify.updated
  /\ searchList[lastNotify.clientId].set

(* C12: whatever the customization flags are, emergency alerts disabled      *)
(* included, the computed configuration holds the CDMA presidential-level    *)
(* range and the GSM presidential-level range, so it is never empty.         *)
C12_PresidentialAlwaysOn ==
  computed.done =>
    /\ <<SERVICE_CATEGORY_CMAS_PRESIDENTIAL_LEVEL_ALERT,
         SERVICE_CATEGORY_CMAS_PRESIDENTIAL_LEVEL_ALERT + 1>>
         \in RangeSet(computed.config.cdma)
    /\ <<MESSAGE_ID_CMAS_ALERT_PRESIDENTIAL_LEVEL,
         MESSAGE_ID_CMAS_ALERT_PRESIDENTIAL_LEVEL + 1>>
         \in RangeSet(computed.config.gsm)
    /\ computed.config.cdma # <<>>
    /\ computed.config.gsm # <<>>

(* the configuration was computed with the emergency alerts disabled *)
C12_Witness ==
  /\ computed.done
  /\ ~customization.KEY_ENABLE_EMERGENCY_ALERTS
  /\ Len(computed.config.cdma) = 2

(* ======================================================================== *)
(* StartWifi and StartSoftAp: what a failure leaves, and the order of steps  *)
(* ======================================================================== *)

(* the tear-down calls of station mode *)
StaTeardownCalls ==
  {"SupplicantStaManager.DeinitInterface",
   "WificondControl.StopSupplicant",
   "WificondControl.TearDownClientInterface",
   "SupplicantStaManager.UnregisterDeathHandler",
   "WifiHal.TearDownInterface(STA)"}

(* the layers that entry e of log set up: those of its call when the call   *)
(* completed (it returned SUCCESS, or returns nothing)                       *)
SetUpBy(e) ==
  IF e.res \in {SUCCESS, "void"}
    THEN {l \in Layers : HalEffect(AllDown, e.call, SUCCESS)[l]}
    ELSE {}

(* C19: a failing StartWifi does not roll back the steps it completed.  The  *)
(* only tear-down call StartWifi ever makes is TearDownClientInterface,      *)
(* right after a failed SetupClientIface and as its last call; when          *)
(* StartWifi has returned an error, every layer a completed step set up      *)
(* (module, event service, supplicant, death handler) is still set up.       *)
C19_FailedStartWifiKeepsPartialState ==
  op = "StartWifi" =>
    /\ \A i \in 1..Len(log) :
         log[i].call \in StaTeardownCalls =>
           /\ log[i].call = "WificondControl.TearDownClientInterface"
           /\ i > 1
           /\ log[i - 1].call = "WificondControl.SetupClientIface"
           /\ log[i - 1].res # SUCCESS
           /\ i = Len(log)
    /\ (pc = "idle" /\ ret # SUCCESS) =>
         /\ \A i \in 1..Len(log) :
              \A l \in SetUpBy(log[i]) \ {"clientIface"} : hal[l]
         /\ \A i \in 1..Len(log) :
              (log[i].call = "WificondControl.SetupClientIface" /\ log[i].res # SUCCESS) =>
                /\ i < Len(log)
                /\ log[i + 1].call = "WificondControl.TearDownClientInterface"

(* a StartWifi that fails at its last step, SetupStaInterface, and returns   *)
(* with the module, event service, supplicant, death handler and client      *)
(* interface all left set up                                                 *)
C19_Witness ==
  /\ pc = "idle"
  /\ op = "StartWifi"
  /\ ret # SUCCESS
  /\ log[Len(log)].call = "SupplicantStaManager.SetupStaInterface"
  /\ log[Len(log)].res # SUCCESS
  /\ \A l \in {"module", "eventService", "supplicantDaemon", "deathHandler", "clientIface"} :
       hal[l]

(* the steps of StartSoftAp in the order its comment documents: 1. load the  *)
(* driver module and configure the chip as AP mode, 2. start the hostapd     *)
(* service, 4. set up the AP interface in wificond; then start the softap    *)
StartSoftApDocumentedSteps ==
  <<"WifiHal.StartWifiModule",
    "WifiHal.ConfigChipAndCreateIface(AP)",
    "WifiNative.StartAndConnectHostapd",
    "WificondControl.SetupApIface",
    "SoftapManager.StartSoftap">>

(* C20: StartSoftAp makes its steps in the documented order, a later step    *)
(* only after every earlier one; no call on hostapd is made before the chip  *)
(* is configured as AP.                                                      *)
C20_StartSoftApDocumentedOrder ==
  op = "StartSoftAp" =>
    /\ \A i, j \in 1..Len(StartSoftApDocumentedSteps) :
         (i < j /\ Pos(log, StartSoftApDocumentedSteps[j]) > 0) =>
           /\ Pos(log, StartSoftApDocumentedSteps[i]) > 0
           /\ Pos(log, StartSoftApDocumentedSteps[i]) < Pos(log, StartSoftApDocumentedSteps[j])
    /\ Pos(log, "SoftapManager.InitInterface") > 0 =>
         /\ Pos(log, "WifiHal.ConfigChipAndCreateIface(AP)") > 0
         /\ Pos(log, "WifiHal.ConfigChipAndCreateIface(AP)")
              < Pos(log, "SoftapManager.InitInterface")

(* ======================================================================== *)
(* Properties of ExecuteCommand and of the error policy                      *)
(* ======================================================================== *)

(* C14: for each known command ExecuteCommand calls exactly one method, the  *)
(* method of that command and of no other command, stores the status the     *)
(* method returned unchanged in aResult->mStatus, and returns true.          *)
C14_ExecuteCommandMapsAndReturnsTrue ==
  /\ \A c1, c2 \in Commands : MethodOf[c1] = MethodOf[c2] => c1 = c2
  /\ executed.cmd \in Commands =>
       /\ executed.methods = <<MethodOf[executed.cmd]>>
       /\ aResult.mStatus = executed.status
       /\ executed.ret = TRUE

(* C15: no operation reports success after one of the calls it made on a     *)
(* wrapper has failed: a StartWifi or a Connect that returned SUCCESS made   *)
(* no call that returned an error.                                           *)
C15_NoSuccessAfterFailedCall ==
  (op \in {"StartWifi", "Connect"} /\ pc = "idle" /\ ret = SUCCESS) =>
    \A i \in 1..Len(log) : log[i].res \notin Errors

(* ======================================================================== *)
(* Properties of nsRilWorker                                                 *)
(* ======================================================================== *)

(* C13: every result reaches the listener on the main thread only.  The      *)
(* functions that run on the thread of the HAL post a runnable and do not    *)
(* call the listener: a step that adds a runnable to the queue of the main   *)
(* thread leaves the listener alone.  A call on the listener is made only by *)
(* a step that takes the first runnable waiting off the queue and runs it,   *)
(* on the main thread, for the result the runnable holds.                    *)
C13_ListenerOnMainThreadOnly ==
  [][ /\ Len(mainQueue') > Len(mainQueue) => handled' = handled
      /\ (handled' # handled /\ handled'.kind # "none") =>
           /\ mainQueue # <<>>
           /\ mainQueue' = Tail(mainQueue)
           /\ handled'.msg = Head(mainQueue)
           /\ handled'.thread = MainThread
           /\ handled'.by = "Run"
           /\ handled'.kind = IF Head(mainQueue).mResponse
                                THEN "HandleRilResponse"
                                ELSE "HandleRilIndication" ]_vars

(* Run has handed an indication to the listener on the main thread, as the   *)
(* second call on the listener or a later one                                *)
C13_Witness ==
  /\ handled.kind = "HandleRilIndication"
  /\ handled.thread = MainThread
  /\ handled.by = "Run"
  /\ handled.flip = FALSE
  /\ mRilCallback # nullptr

(* the events of a method call that are neither a line of the log nor part   *)
(* of GetRadioProxy: the requests made on the handle                         *)
IsRadioRequest(e) ==
  e.call \notin {"INFO", "ERROR", "getService", "linkToDeath", "setResponseFunctions",
                 "NS_DispatchToMainThread"}

RadioRequests(r) == SelectSeq(r.trace, IsRadioRequest)

(* where event e first is in the trace of r; 0 when it is not *)
EventPos(r, e) ==
  IF \E i \in 1..Len(r.trace) : r.trace[i] = e
    THEN CHOOSE i \in 1..Len(r.trace) :
           r.trace[i] = e /\ \A j \in 1..(i - 1) : r.trace[j] # e
    ELSE 0

(* the method called had no handle after GetRadioProxy *)
FoundNoHandle(r) == EventPos(r, RilCall("getService", nullptr, 0)) > 0

(* the request forwarders that look at the handle *)
HandleForwarders ==
  {"SetRadioPower", "GetCallForwardStatus", "SetCallForwardStatus",
   "ReportStkServiceIsRunning"}

(* C16: a request forwarder that has no handle after GetRadioProxy writes    *)
(* the error to the log and then makes its vendor call all the same, on the  *)
(* null handle and with the caller's serial; sendAck without a handle writes *)
(* its error to the log and makes no vendor call.                            *)
C16_NullHandleIsLoggedThenUsed ==
  FoundNoHandle(request) =>
    /\ request.method \in HandleForwarders =>
         /\ EventPos(request, ERROR("No Radio HAL exist")) > 0
         /\ EventPos(request, ERROR("No Radio HAL exist")) = Len(request.trace) - 1
         /\ IsRadioRequest(request.trace[Len(request.trace)])
         /\ request.trace[Len(request.trace)].on = nullptr
         /\ request.trace[Len(request.trace)].serial = request.serial
         /\ Len(RadioRequests(request)) = 1
    /\ request.method \in {"sendAck", "processResponse", "processIndication"} =>
         /\ RadioRequests(request) = <<>>
         /\ EventPos(request, INFO("sendAck")) > 0
         /\ EventPos(request, ERROR("sendAck mRadioProxy == nullptr")) > 0
    /\ request.method \in HandleForwarders \cup
                            {"sendAck", "processResponse", "processIndication", "InitRil"}

(* SetRadioPower got no handle, called setRadioPower on the null handle and  *)
(* returned NS_OK                                                            *)
C16_Witness ==
  /\ request.method = "SetRadioPower"
  /\ FoundNoHandle(request)
  /\ request.trace[Len(request.trace)] = RilCall("setRadioPower", nullptr, request.serial)
  /\ request.ret = NS_OK

(* the methods that go through GetRadioProxy *)
ProxyUsers == HandleForwarders \cup {"sendAck", "InitRil"}

(* C17, in every state: the cached handle is that of the worker's own slot;  *)
(* a cached handle has the death recipient and the sinks registered on it;   *)
(* in a call that acquired the handle, linkToDeath and then                  *)
(* setResponseFunctions come right after getService and before any request   *)
(* made on the handle; in a call whose getService returned null nothing was  *)
(* registered.                                                               *)
C17_AcquiredHandleIsRegistered ==
  /\ mRadioProxy \in {nullptr, HIDL_SERVICE_NAME[mClientId + 1]}
  /\ mRadioProxy # nullptr =>
       /\ mDeathRecipient # nullptr
       /\ proxy.linkToDeath # "none"
       /\ proxy.setResponseFunctions
  /\ \A i \in 1..Len(request.trace) :
       (request.trace[i].call = "getService" /\ request.trace[i].on # nullptr) =>
         /\ request.trace[i].on = HIDL_SERVICE_NAME[mClientId + 1]
         /\ EventPos(request, RilCall("linkToDeath", request.trace[i].on, 0)) = i + 1
         /\ EventPos(request, RilCall("setResponseFunctions", request.trace[i].on, 0))
              \in {i + 2, i + 3}
         /\ \A j \in 1..Len(request.trace) :
              IsRadioRequest(request.trace[j]) =>
                /\ request.trace[j].on = request.trace[i].on
                /\ j > EventPos(request,
                                RilCall("setResponseFunctions", request.trace[i].on, 0))
  /\ FoundNoHandle(request) =>
       /\ \A j \in 1..Len(request.trace) :
            request.trace[j].call \notin {"linkToDeath", "setResponseFunctions"}
       /\ rilAlive => mRadioProxy = nullptr

(* C17, in every step: while the cached handle is non-null a call leaves the *)
(* handle and what is registered on it alone and does not call getService;   *)
(* while it is null, every call of a method that goes through GetRadioProxy  *)
(* calls getService again, and when that returns null nothing is registered. *)
C17_HandleIsCachedAndRetried ==
  [][ /\ (mRadioProxy # nullptr /\ request' # request) =>
           /\ mRadioProxy' = mRadioProxy
           /\ proxy' = proxy
           /\ mDeathRecipient' = mDeathRecipient
           /\ \A i \in 1..Len(request'.trace) : request'.trace[i].call # "getService"
      /\ (mRadioProxy = nullptr /\ request' # request /\ request'.method \in ProxyUsers) =>
           /\ \E i \in 1..Len(request'.trace) : request'.trace[i].call = "getService"
           /\ FoundNoHandle(request') => proxy' = proxy /\ mRadioProxy' \in {nullptr} ]_vars

(* C17: the Radio Proxy Accessor caches the handle of the worker's own slot, *)
(* registers the death recipient and the sinks on each handle it acquires    *)
(* before any request is forwarded on it, and tries getService again on the  *)
(* next call when it returned null.                                          *)
C17_RadioProxyAccessor ==
  []C17_AcquiredHandleIsRegistered /\ C17_HandleIsCachedAndRetried

(* SetRadioPower on the worker of the second slot acquired the handle of     *)
(* that slot, failed to link to its death, registered the sinks and then     *)
(* forwarded the request on it                                               *)
C17_Witness ==
  /\ request.method = "SetRadioPower"
  /\ Len(request.trace) >= 5
  /\ request.trace[2] = RilCall("getService", HIDL_SERVICE_NAME[mClientId + 1], 0)
  /\ request.trace[Len(request.trace)].call = "setRadioPower"
  /\ request.trace[Len(request.trace)].on = mRadioProxy
  /\ mClientId = 1
  /\ proxy.linkToDeath = "failed"

(* the request forwarders *)
Forwarders == HandleForwarders \cup {"SetGsmBroadcastActivation", "SetGsmBroadcastConfig"}

(* the request a forwarder announces in the log when it is called *)
Announced(r) == r.trace[1].on

(* the request that each vendor call makes: the one announced by the         *)
(* forwarder named after the call                                            *)
RequestOfCall ==
  [setRadioPower |-> "RIL_REQUEST_RADIO_POWER",
   getCallForwardStatus |-> "RIL_REQUEST_QUERY_CALL_FORWARD_STATUS",
   reportStkServiceIsRunning |-> "RIL_REQUEST_REPORT_STK_SERVICE_IS_RUNNING"]

(* C18: each request forwarder makes exactly one vendor call, the call of    *)
(* the request it announces, with the caller's serial.                       *)
C18_ForwardersAreOneToOne ==
  request.method \in Forwarders =>
    /\ Len(RadioRequests(request)) = 1
    /\ RadioRequests(request)[1].serial = request.serial
    /\ RequestOfCall[RadioRequests(request)[1].call] = Announced(request)

(* ======================================================================== *)
(* StopWifi step by step                                                     *)
(* ======================================================================== *)

(* C21: StopWifi makes its calls in the documented order (DeinitInterface    *)
(* and StopSupplicant, TearDownClientInterface, UnregisterDeathHandler,      *)
(* TearDownInterface), each at most once; a call that returns an error is    *)
(* the last one made and its error is what StopWifi returns; StopWifi        *)
(* returns SUCCESS only after all five.  When TearDownClientInterface fails, *)
(* the death handler is not unregistered and the STA interface is not torn   *)
(* down: both are as they were when StopWifi began.                          *)
C21_StopWifiStepsAndAbort ==
  op = "StopWifi" =>
    LET calls == VendorCalls(log)
        steps == StopVendorCalls("StopWifi")
    IN /\ Len(calls) <= Len(steps)
       /\ \A i \in 1..Len(calls) : calls[i].call = steps[i]
       /\ \A i \in 1..Len(calls) :
            calls[i].res \in Errors =>
              /\ i = Len(calls)
              /\ pc = "idle"
              /\ ret = calls[i].res
       /\ (pc = "idle" /\ ret = SUCCESS) => Len(calls) = Len(steps)
       /\ (Len(calls) = 3 /\ calls[3].res \in Errors) =>
            /\ hal["deathHandler"] = entry["deathHandler"]
            /\ hal["staIface"] = entry["staIface"]
            /\ hal["module"] = entry["module"]

(* StopWifi returned the error of TearDownClientInterface with the death     *)
(* handler still registered and the STA interface still up                   *)
C21_Witness ==
  /\ op = "StopWifi"
  /\ pc = "idle"
  /\ ret \in Errors
  /\ log[Len(log)] = Call("WificondControl.TearDownClientInterface", ret)
  /\ hal["deathHandler"]
  /\ hal["staIface"]

(* ======================================================================== *)
(* nsRilWorker: which results are posted, which acknowledged                 *)
(* ======================================================================== *)

(* the last method called posted a runnable to the main thread *)
Posted(r) ==
  \E i \in 1..Len(r.trace) : r.trace[i].call = "NS_DispatchToMainThread"

(* C22, in every state: sendRilResponseResult posts the response exactly     *)
(* when its token is greater than 0 and sendRilIndicationResult posts every  *)
(* indication; no response with a token that is not positive waits for the   *)
(* main thread or has been handed to the listener.                           *)
C22_OnlyPositiveTokensWait ==
  /\ request.method = "sendRilResponseResult" =>
       /\ Posted(request) <=> request.serial > 0
       /\ Posted(request) =>
            request.trace = <<NS_DispatchToMainThread(ResponseRunnable(request.serial))>>
  /\ request.method = "sendRilIndicationResult" =>
       request.trace = <<NS_DispatchToMainThread(IndicationRunnable)>>
  /\ \A i \in 1..Len(mainQueue) : mainQueue[i].mResponse => mainQueue[i].token > 0
  /\ handled.kind = "HandleRilResponse" => handled.msg.token > 0

(* C22, in every step: a runnable joins the queue of the main thread only in *)
(* a step of sendRilResponseResult or sendRilIndicationResult, and it is the *)
(* runnable of the result given; a sendRilResponseResult with a token that   *)
(* is not positive leaves the queue as it is; a sendRilIndicationResult adds *)
(* its indication.                                                           *)
C22_PostedExactlyWhenExpected ==
  [][ /\ Len(mainQueue') > Len(mainQueue) =>
           /\ request'.method \in {"sendRilResponseResult", "sendRilIndicationResult"}
           /\ mainQueue' = Append(mainQueue, request'.trace[1].on)
      /\ (request' # request /\ request'.method = "sendRilResponseResult"
            /\ request'.serial <= 0) =>
           mainQueue' = mainQueue
      /\ (request' # request /\ request'.method = "sendRilIndicationResult") =>
           mainQueue' = Append(mainQueue, IndicationRunnable) ]_vars

(* C22: a response is posted for delivery only when its token is greater     *)
(* than 0, a response with another token never reaches the listener, and     *)
(* every indication is posted.                                               *)
C22_InternalResponsesNotDelivered ==
  []C22_OnlyPositiveTokensWait /\ C22_PostedExactlyWhenExpected

(* a response with token 0 was given to sendRilResponseResult while a        *)
(* listener was registered, and nothing waits for the main thread            *)
C22_Witness ==
  /\ request.method = "sendRilResponseResult"
  /\ request.serial = 0
  /\ mRilCallback # nullptr
  /\ mainQueue = <<>>
  /\ handled.kind = "HandleRilIndication"

(* sendAck() was called in the last method call *)
CalledSendAck(r) == EventPos(r, INFO("sendAck")) > 0

(* C23: an acknowledgement is sent exactly when one is expected:             *)
(* processResponse calls sendAck iff the type is SOLICITED_ACK_EXP,          *)
(* processIndication calls sendAck iff the type is UNSOLICITED_ACK_EXP; a    *)
(* call that made no sendAck made no call on the handle; each sendAck makes  *)
(* exactly one responseAcknowledgement, on the cached handle, when there is  *)
(* a handle, and none when there is not.                                     *)
C23_AckExactlyWhenExpected ==
  /\ request.method = "processResponse" =>
       (CalledSendAck(request) <=> Announced(request) = "SOLICITED_ACK_EXP")
  /\ request.method = "processIndication" =>
       (CalledSendAck(request) <=> Announced(request) = "UNSOLICITED_ACK_EXP")
  /\ request.method \in {"processResponse", "processIndication", "sendAck"} =>
       RadioRequests(request) =
         IF CalledSendAck(request) /\ ~FoundNoHandle(request)
           THEN <<RilCall("responseAcknowledgement", mRadioProxy, 0)>>
           ELSE <<>>
  /\ (CalledSendAck(request) /\ ~FoundNoHandle(request)) => mRadioProxy # nullptr

(* processResponse was given SOLICITED_ACK_EXP and acknowledged it on the    *)
(* handle it had already                                                     *)
C23_Witness ==
  /\ request.method = "processResponse"
  /\ Announced(request) = "SOLICITED_ACK_EXP"
  /\ request.trace = <<INFO("SOLICITED_ACK_EXP"), INFO("sendAck"),
                       RilCall("responseAcknowledgement", mRadioProxy, 0)>>
  /\ mRadioProxy # nullptr

(* C24: when serviceDied is delivered the worker cleans up its proxy         *)
(* instance: the cached handle is cleared (so that the next request goes to  *)
(* getService again and registers the death recipient and the sinks again).  *)
(* The code only writes a line to the log: the handle of the dead service    *)
(* stays cached.                                                             *)
C24_ServiceDiedClearsHandle ==
  request.method = "serviceDied" =>
    /\ mRadioProxy = nullptr
    /\ proxy = NotRegistered

(* C25: getCBSearchList for a client that has a handler returns the stored   *)
(* configuration of that handler (the gsm list with its length, the cdma     *)
(* list with its length); for a client without a handler it throws           *)
(* NS_ERROR_NOT_AVAILABLE.  The code reads the undeclared name aCLientId     *)
(* first, and every call ends there.                                         *)
C25_SearchListIsStoredConfig ==
  searched # NoSearch =>
    IF searched.clientId \in ClientIds
      THEN /\ searched.outcome = "returned"
           /\ searched.aGsms = _config[searched.clientId].gsm
           /\ searched.aGsmCount = Len(_config[searched.clientId].gsm)
           /\ searched.aCdmas = _config[searched.clientId].cdma
           /\ searched.aCdmaCount = Len(_config[searched.clientId].cdma)
      ELSE searched.outcome = "NS_ERROR_NOT_AVAILABLE"

(* C26: ExecuteCommand always correlates the opaque ids: after every call,   *)
(* of a known command, of an unknown one, and of GET_SCAN_RESULTS returning  *)
(* early with no scan result, aResult->mId is the aOptions.mId of the call;  *)
(* for an unknown command it returns false and aResult->mStatus is what it   *)
(* was before the call.                                                      *)
C26_IdsAlwaysCorrelated ==
  executed.cmd # "none" =>
    /\ aResult.mId = executed.id
    /\ executed.cmd = UnknownCommand =>
         /\ executed.ret = FALSE
         /\ executed.methods = <<>>
         /\ aResult.mStatus = executed.before

(* an unknown command with id 2 came after a command that had stored a       *)
(* status: the id is stored and the status is still there                    *)
C26_Witness ==
  /\ executed.cmd = UnknownCommand
  /\ executed.id = 2
  /\ aResult.mId = 2
  /\ executed.before \in Results
  /\ aResult.mStatus = executed.before
  /\ executed.ret = FALSE

(* the early return of GET_SCAN_RESULTS with the id of the call stored *)
C26_WitnessNoScanResult ==
  /\ executed.cmd = "GET_SCAN_RESULTS"
  /\ executed.ret = FALSE
  /\ aResult.mId = executed.id

(* the stored configuration of every client is the one setCBSearchList was   *)
(* last given for the client, the empty one when it was never called         *)
C27_StoredIsLastPushed ==
  \A id \in ClientIds :
    IF searchList[id].set
      THEN /\ _config[id] = [cdma |-> searchList[id].cdmas, gsm |-> searchList[id].gsms]
           /\ searchList[id].gsmCount = Len(_config[id].gsm)
           /\ searchList[id].cdmaCount = Len(_config[id].cdma)
      ELSE _config[id] = EmptyConfig

(* a step changes the stored configuration or the pushed list of one client  *)
(* at most, the client of the notification                                   *)
C27_SlotsAreIndependent ==
  [][\A id \in ClientIds :
       (_config'[id] # _config[id] \/ searchList'[id] # searchList[id]) =>
         /\ lastNotify'.clientId = id
         /\ lastNotify'.pushes = 1
         /\ \A other \in ClientIds \ {id} :
              /\ _config'[other] = _config[other]
              /\ searchList'[other] = searchList[other]]_vars

(* C27: after any sequence of notifyIccInfoChanged calls the stored          *)
(* configuration of a client (_config, what getConfig returns) is the        *)
(* configuration most recently passed to setCBSearchList for that client, or *)
(* the initial empty configuration when nothing was ever pushed; an update   *)
(* on one client never changes the stored configuration of another.          *)
C27_ConfigMirrorsSearchList == []C27_StoredIsLastPushed /\ C27_SlotsAreIndependent

(* a second push replaced the configuration of one client while another      *)
(* client still has the empty configuration                                  *)
C27_Witness ==
  /\ lastNotify.clientId \in ClientIds
  /\ lastNotify.pushes = 1
  /\ lastNotify.old # EmptyConfig
  /\ _config[lastNotify.clientId] = lastNotify.new
  /\ searchList[lastNotify.clientId].gsms = lastNotify.new.gsm
  /\ \E other \in ClientIds : ~searchList[other].set /\ _config[other] = EmptyConfig

(* a notification that called _updateCellBroadcastConfig for a client        *)
(* without radio interface: the new code is stored, nothing is pushed and    *)
(* _config is as before                                                      *)
C28_CodeStoredNothingPushed ==
  (lastNotify.clientId \in ClientIds /\ lastNotify.updated /\ ~lastNotify.computed) =>
    /\ _mccmnc[lastNotify.clientId] = lastNotify.iccInfo.mcc \o lastNotify.iccInfo.mnc
    /\ _mccmnc[lastNotify.clientId] # lastNotify.mccmnc
    /\ lastNotify.pushes = 0
    /\ _config[lastNotify.clientId] = lastNotify.old

(* a notification with the code the handler has stored pushes nothing,       *)
(* whether the client has a radio interface or not and whether               *)
(* the stored configuration was ever pushed or not                           *)
C28_SameCodePushesNothing ==
  [][(/\ lastNotify' # lastNotify
      /\ HasCode(lastNotify'.iccInfo)
      /\ lastNotify'.iccInfo.mcc \o lastNotify'.iccInfo.mnc = _mccmnc[lastNotify'.clientId]) =>
       /\ lastNotify'.pushes = 0
       /\ ~lastNotify'.updated
       /\ UNCHANGED <<_mccmnc, _config, searchList>>]_vars

(* C28: notifyIccInfoChanged stores the new mccmnc before                    *)
(* _updateCellBroadcastConfig looks for the radio interface: when the radio  *)
(* interface is missing at that moment nothing is pushed and _config is      *)
(* unchanged, and every later notifyIccInfoChanged with the same mccmnc      *)
(* pushes nothing either, even after the radio interface became available.   *)
C28_CodeStoredBeforeInterfaceCheck ==
  []C28_CodeStoredNothingPushed /\ C28_SameCodePushesNothing

(* the client has a radio interface and a stored code, it was notified again *)
(* with that code, and its configuration was never pushed                    *)
C28_Witness ==
  /\ lastNotify.clientId \in ClientIds
  /\ radioInterface[lastNotify.clientId]
  /\ HasCode(lastNotify.iccInfo)
  /\ lastNotify.mccmnc = lastNotify.iccInfo.mcc \o lastNotify.iccInfo.mnc
  /\ _mccmnc[lastNotify.clientId] = lastNotify.mccmnc
  /\ ~lastNotify.updated
  /\ lastNotify.pushes = 0
  /\ ~searchList[lastNotify.clientId].set
  /\ _config[lastNotify.clientId] = EmptyConfig

(* C30: in _getCellBroadcastConfig every GSM range is gated by the flag of   *)
(* its own alert class, the same for the base message ids and for the        *)
(* additional-language message ids: for every combination of the extreme and *)
(* severe flags the base range MESSAGE_ID_CMAS_ALERT_EXTREME_EXPECTED_OBSERVED *)
(* .. MESSAGE_ID_CMAS_ALERT_SEVERE_EXPECTED_LIKELY is present exactly when   *)
(* the additional-language range                                             *)
(* MESSAGE_ID_CMAS_ALERT_EXTREME_EXPECTED_OBSERVED_LANGUAGE ..               *)
(* MESSAGE_ID_CMAS_ALERT_SEVERE_EXPECTED_LIKELY_LANGUAGE is.  The code gates  *)
(* the first by the extreme flag and the second by the severe flag.          *)
C30_BaseAndLanguageGatedAlike ==
  computed.done =>
    (<<MESSAGE_ID_CMAS_ALERT_EXTREME_EXPECTED_OBSERVED,
       MESSAGE_ID_CMAS_ALERT_SEVERE_EXPECTED_LIKELY + 1>>
       \in RangeSet(computed.config.gsm)
     <=>
     <<MESSAGE_ID_CMAS_ALERT_EXTREME_EXPECTED_OBSERVED_LANGUAGE,
       MESSAGE_ID_CMAS_ALERT_SEVERE_EXPECTED_LIKELY_LANGUAGE + 1>>
       \in RangeSet(computed.config.gsm))

====
